---- MODULE Spec2Model ----
(***************************************************************************)
(* A model of the pymap IMAP core: the per-connection state machine        *)
(* (pymap/state.py, ConnectionState) over the demo backend                 *)
(* (pymap/demo/session.py, Session).                                       *)
(*                                                                         *)
(* Every command is one atomic step: ConnectionState.do_command with the   *)
(* handler it dispatches to, the Session operation the handler calls and   *)
(* the trailing drain of the selection's pending updates.  The Session     *)
(* operations hold no suspension point between reading and writing the     *)
(* shared State, so under the cooperative scheduler each runs atomically.  *)
(*                                                                         *)
(* pymap/demo/state.py (State, Message, SelectedMailbox), pymap/demo/      *)
(* mailbox.py (Mailbox) and the command classes are not among the source   *)
(* files; the definitions that stand for them follow spec.md.              *)
(***************************************************************************)
EXTENDS Integers, Sequences, FiniteSets, TLC

VARIABLES
    session,    \* ConnectionState.session of each connection (None before login)
    selected,   \* ConnectionState.selected of each connection: its SelectedMailbox
    views,      \* keys of Session.mailboxes of each connection's session
    mailboxes,  \* State.mailboxes: name -> MailboxState
    clock,      \* source of fresh uid_validity values
    last,       \* the command processed last and the response written for it
    waiting     \* the connections suspended in check_mailbox(block=True)

vars == <<session, selected, views, mailboxes, clock, last, waiting>>

---------------------------------------------------------------------------
(* Bounds of the model.                                                    *)

\* APPEND and COPY are disabled once a mailbox's next_uid would pass this.
MaxNextUid == 3
\* A step that would leave more updates than this in a pending queue is disabled.
MaxPending == 5
\* CREATE is disabled once this many uid_validity values were handed out.
MaxClock == 2

Conns == {"c1", "c2"}
Names == {"INBOX", "A"}

Deleted == "\\Deleted"
Recent == "\\Recent"
Flags == {Deleted}

None == ""
NoSelection ==
    [name |-> "", readonly |-> FALSE, recent |-> {}, pending |-> <<>>,
     updated |-> FALSE]

\* The whole program state as one value, so that an operation is a function
\* from state to state and a handler can be followed by the drain.
World ==
    [session |-> session, selected |-> selected, views |-> views,
     mailboxes |-> mailboxes, clock |-> clock]

---------------------------------------------------------------------------
(* Commands and responses.                                                 *)

CommandNonAuth == {"LOGIN", "AUTHENTICATE"}
CommandAuth ==
    {"CREATE", "DELETE", "RENAME", "LIST", "LSUB", "SUBSCRIBE", "UNSUBSCRIBE",
     "STATUS", "APPEND", "SELECT", "EXAMINE"}
CommandSelect ==
    {"CHECK", "CLOSE", "EXPUNGE", "FETCH", "STORE", "SEARCH", "COPY"}
CommandAny == {"CAPABILITY", "NOOP", "LOGOUT"}

Cmd(command) ==
    [command |-> command, authcid |-> "", secret |-> "", mailbox |-> "",
     to_mailbox |-> "", sequence_set |-> {}, uid |-> FALSE, flag_list |-> {},
     mode |-> "", silent |-> FALSE, keys |-> ""]

\* cmd.no_expunge_response: the EXPUNGE reply already holds its own data.
no_expunge_response(cmd) == cmd.command = "EXPUNGE"

Response(status, text, code) ==
    [status |-> status, text |-> text, code |-> code, data |-> <<>>]
ResponseOk(text) == Response("OK", text, "")
ResponseNo(text) == Response("NO", text, "")
ResponseBad(text) == Response("BAD", text, "")
\* An exception that no handler catches leaves do_command without a response.
Raised(exc) == Response("RAISED", exc, "")

Data(kind, n, flags) == [kind |-> kind, n |-> n, flags |-> flags]
add_data(resp, item) == [resp EXCEPT !.data = Append(@, item)]

RECURSIVE add_all(_, _)
add_all(resp, items) ==
    IF items = <<>> THEN resp
    ELSE add_all(add_data(resp, Head(items)), Tail(items))

NoUpdates == [exists |-> 0, recent |-> -1, expunge |-> <<>>, fetch |-> <<>>]

---------------------------------------------------------------------------
(* SelectedMailbox: the pending-update queue of one selection.             *)

Update(kind, seq, flags) == [kind |-> kind, seq |-> seq, flags |-> flags]

Max(S) == CHOOSE x \in S : \A y \in S : y <= x

\* add_message: a message was delivered while this selection was open.  The
\* selection takes \Recent for it and reports EXISTS, RECENT and the flags.
add_message(sel, seq, uid, flag_set) ==
    [sel EXCEPT !.recent = @ \cup {uid},
                !.pending = @ \o <<Update("exists", seq, {}),
                                   Update("recent", 0, {}),
                                   Update("fetch", seq, flag_set \cup {Recent})>>,
                !.updated = TRUE]

remove_message(sel, seq, uid) ==
    [sel EXCEPT !.recent = @ \ {uid},
                !.pending = Append(@, Update("expunge", seq, {})),
                !.updated = TRUE]

add_fetch(sel, seq, flag_set) ==
    [sel EXCEPT !.pending = Append(@, Update("fetch", seq, flag_set)),
                !.updated = TRUE]

updated_set(sel) == [sel EXCEPT !.updated = TRUE]

\* updated.clear() without effect.
updated_kept(sel) == sel

updated_clear(sel) == [sel EXCEPT !.updated = FALSE]

\* poll: drains the queue.  EXISTS and RECENT are coalesced to one value each,
\* the EXPUNGE and FETCH updates keep their queue order.  A key the dict does
\* not hold is 0 (exists), -1 (recent) or the empty list.
poll(sel) ==
    LET q == sel.pending
        ex == {q[i].seq : i \in {j \in DOMAIN q : q[j].kind = "exists"}}
        IsExpunge(u) == u.kind = "expunge"
        IsFetch(u) == u.kind = "fetch"
    IN [updates |->
            [exists |-> IF ex = {} THEN 0 ELSE Max(ex),
             recent |-> IF \E i \in DOMAIN q : q[i].kind = "recent"
                        THEN Cardinality(sel.recent) ELSE -1,
             expunge |-> SelectSeq(q, IsExpunge),
             fetch |-> SelectSeq(q, IsFetch)],
        sel |-> [sel EXCEPT !.pending = <<>>]]

---------------------------------------------------------------------------
(* MailboxState and the read-only views of it.                             *)

permanent_flags == {Deleted}

\* The uid_validity and first UID of a mailbox made by a lookup of a new name.
FirstUid == 1

NewMailbox(validity) ==
    [messages |-> <<>>, next_uid |-> FirstUid, recent |-> {},
     subscribed |-> FALSE, uid_validity |-> validity, sessions |-> {}]

\* Mailbox.get_snapshot / Mailbox.load: what a view shows of the MailboxState.
get_snapshot(w, name) ==
    LET mb == w.mailboxes[name]
    IN [name |-> name, exists |-> Len(mb.messages),
        recent |-> Cardinality(mb.recent), next_uid |-> mb.next_uid,
        highest_uid |-> mb.next_uid - 1, uid_validity |-> mb.uid_validity,
        messages |-> mb.messages]

\* Message.get_flags(selected): the persistent flags and the session's \Recent.
get_flags(msg, sel) ==
    msg.flags \cup (IF msg.uid \in sel.recent THEN {Recent} ELSE {})

\* The weak registry: a SelectedMailbox its connection dropped is in no
\* MailboxState.sessions any more.
unregister(w, c) ==
    [w EXCEPT !.mailboxes =
        [n \in DOMAIN w.mailboxes |->
            [w.mailboxes[n] EXCEPT !.sessions = @ \ {c}]]]

---------------------------------------------------------------------------
(* Session (pymap/demo/session.py).  An operation returns the new state,   *)
(* the exception it raised ("" for none) and its result.                   *)

Ok(w, result) == [w |-> w, err |-> "", result |-> result]
Raise(w, exc) == [w |-> w, err |-> exc, result |-> <<>>]

\* Session.login: the session of the one principal, or InvalidAuth.
login(authcid, secret) ==
    IF authcid = "demouser" /\ secret = "demopass"
    THEN [err |-> "", result |-> authcid]
    ELSE [err |-> "InvalidAuth", result |-> None]

_sessions(w, name) == w.mailboxes[name].sessions

_check_selected(w, c, sel) ==
    IF sel.name \notin DOMAIN w.mailboxes THEN Raise(w, "MailboxNotFound")
    ELSE IF sel.name \notin w.views[c] THEN Raise(w, "KeyError")
    ELSE Ok(w, get_snapshot(w, sel.name))

\* check_mailbox up to the point where it returns, raises or suspends:
\* updated.wait() returns at once when the signal is set and suspends the
\* caller otherwise.
check_mailbox(w, c, sel, block) ==
    IF _check_selected(w, c, sel).err # "" THEN _check_selected(w, c, sel)
    ELSE IF block /\ ~sel.updated THEN Ok(w, "suspended")
    ELSE IF block THEN Ok([w EXCEPT !.selected[c] = updated_clear(sel)], "returned")
    ELSE Ok(w, "returned")

\* check_mailbox from the return of updated.wait() on.
check_mailbox_resumed(w, c) ==
    Ok([w EXCEPT !.selected[c] = updated_clear(@)], "returned")

_get_mailbox(w, c, name) ==
    IF name \notin DOMAIN w.mailboxes THEN Raise(w, "MailboxNotFound")
    ELSE Ok(w, get_snapshot(w, name))

get_mailbox(w, c, name) ==
    IF name \notin DOMAIN w.mailboxes THEN Raise(w, "MailboxNotFound")
    ELSE Ok(w, get_snapshot(w, name))

\* _increment_next_uid that returns the value and leaves it in place.
_increment_next_uid_stale(w, name) ==
    [w |-> w, next_uid |-> w.mailboxes[name].next_uid]

_increment_next_uid(w, name) ==
    [w |-> [w EXCEPT !.mailboxes[name].next_uid = @ + 1],
     next_uid |-> w.mailboxes[name].next_uid]

\* append_message that records the UID as recent whoever has the mailbox open.
append_message_unannounced(w, name, flag_set) ==
    [w |-> [_increment_next_uid(w, name).w EXCEPT
               !.mailboxes[name].messages =
                   Append(@, [uid |-> w.mailboxes[name].next_uid,
                              flags |-> flag_set \cap permanent_flags]),
               !.mailboxes[name].recent = @ \cup {w.mailboxes[name].next_uid}],
     uid |-> w.mailboxes[name].next_uid]

\* One round of the loop of append_messages: the UID, the message, the fan-out.
append_message(w, name, flag_set) ==
    LET a == _increment_next_uid(w, name)
        msg_uid == a.next_uid
        msg == [uid |-> msg_uid, flags |-> flag_set \cap permanent_flags]
        w1 == [a.w EXCEPT !.mailboxes[name].messages = Append(@, msg)]
        msg_seq == Len(w1.mailboxes[name].messages)
        sessions == _sessions(w1, name)
    IN IF sessions # {}
       THEN [w |-> [w1 EXCEPT !.selected =
                       [s \in Conns |->
                           IF s \in sessions
                           THEN updated_set(add_message(w1.selected[s], msg_seq,
                                                        msg_uid, flag_set))
                           ELSE w1.selected[s]]],
             uid |-> msg_uid]
       ELSE [w |-> [w1 EXCEPT !.mailboxes[name].recent = @ \cup {msg_uid}],
             uid |-> msg_uid]

RECURSIVE append_loop(_, _, _, _)
append_loop(w, name, messages, msg_uids) ==
    IF messages = <<>> THEN Ok(w, msg_uids)
    ELSE LET r == append_message(w, name, Head(messages))
         IN append_loop(r.w, name, Tail(messages), Append(msg_uids, r.uid))

\* messages: the flag set of each message to append, in order.  The result
\* is AppendUid's list of UIDs.
append_messages(w, c, name, messages) ==
    IF _get_mailbox(w, c, name).err # "" THEN Raise(w, "MailboxNotFound")
    ELSE append_loop(w, name, messages, <<>>)

select_mailbox(w, c, name, readonly) ==
    IF name \notin DOMAIN w.mailboxes THEN Raise(w, "MailboxNotFound")
    ELSE LET updates == [name |-> name, readonly |-> readonly,
                         recent |-> w.mailboxes[name].recent,
                         pending |-> <<>>, updated |-> FALSE]
             w1 == [w EXCEPT !.mailboxes[name].recent = {},
                             !.mailboxes[name].sessions = @ \cup {c},
                             !.views[c] = @ \cup {name}]
         IN Ok(w1, updates)

create_mailbox(w, c, name) ==
    IF name \in DOMAIN w.mailboxes THEN Raise(w, "MailboxConflict")
    ELSE Ok([w EXCEPT !.mailboxes =
                   [n \in DOMAIN w.mailboxes \cup {name} |->
                       IF n = name THEN NewMailbox(w.clock + 1)
                       ELSE w.mailboxes[n]],
                      !.clock = @ + 1],
            <<>>)

\* delete_mailbox that takes an absent name as deleted.
delete_mailbox_quiet(w, c, name) ==
    Ok([w EXCEPT !.mailboxes =
             [n \in DOMAIN w.mailboxes \ {name} |-> w.mailboxes[n]],
                !.views[c] = @ \ {name}],
       <<>>)

delete_mailbox(w, c, name) ==
    IF name \notin DOMAIN w.mailboxes THEN Raise(w, "MailboxNotFound")
    ELSE Ok([w EXCEPT !.mailboxes =
                   [n \in DOMAIN w.mailboxes \ {name} |-> w.mailboxes[n]],
                      !.views[c] = @ \ {name}],
            <<>>)

\* rename_mailbox without the del of the old name.
rename_mailbox_copying(w, c, before_name, after_name) ==
    IF after_name \in DOMAIN w.mailboxes THEN Raise(w, "MailboxConflict")
    ELSE IF before_name \notin DOMAIN w.mailboxes
    THEN Raise(w, "MailboxNotFound")
    ELSE Ok([w EXCEPT !.mailboxes =
                   [n \in DOMAIN w.mailboxes \cup {after_name} |->
                       IF n = after_name THEN w.mailboxes[before_name]
                       ELSE w.mailboxes[n]]],
            <<>>)

rename_mailbox(w, c, before_name, after_name) ==
    IF after_name \in DOMAIN w.mailboxes THEN Raise(w, "MailboxConflict")
    ELSE IF before_name \notin DOMAIN w.mailboxes
    THEN Raise(w, "MailboxNotFound")
    ELSE Ok([w EXCEPT !.mailboxes =
                   [n \in (DOMAIN w.mailboxes \cup {after_name}) \ {before_name} |->
                       IF n = after_name THEN w.mailboxes[before_name]
                       ELSE w.mailboxes[n]]],
            <<>>)

\* SequenceSet.iter(upper): the values of the range lo:hi (hi = 0 stands for
\* '*', the upper bound), ascending; nothing when the upper bound is 0.
iter(sequences, upper) ==
    IF upper = 0 THEN <<>>
    ELSE LET hi == IF sequences.hi = 0 THEN upper ELSE sequences.hi
             a == IF sequences.lo <= hi THEN sequences.lo ELSE hi
             b == IF sequences.lo <= hi THEN hi ELSE sequences.lo
         IN [i \in 1..(b - a + 1) |-> a + i - 1]

uid_to_idx(mbx, msg_uid) ==
    {i \in DOMAIN mbx.messages : mbx.messages[i].uid = msg_uid}

\* _iter_messages: the (sequence number, message) pairs the generator yields
\* and the exception that ends it, if one does.
RECURSIVE iter_by_seq(_, _, _)
iter_by_seq(mbx, seqs, acc) ==
    IF seqs = <<>> THEN [items |-> acc, err |-> ""]
    ELSE IF Head(seqs) > Len(mbx.messages)
    THEN [items |-> acc, err |-> "IndexError"]
    ELSE iter_by_seq(mbx, Tail(seqs),
                     Append(acc, [seq |-> Head(seqs),
                                  msg |-> mbx.messages[Head(seqs)]]))

RECURSIVE iter_by_uid(_, _, _)
iter_by_uid(mbx, uids, acc) ==
    IF uids = <<>> THEN [items |-> acc, err |-> ""]
    ELSE LET idx == uid_to_idx(mbx, Head(uids))
         IN iter_by_uid(mbx, Tail(uids),
                        IF idx = {} THEN acc
                        ELSE Append(acc, [seq |-> Max(idx),
                                          msg |-> mbx.messages[Max(idx)]]))

_iter_messages(mbx, sequences, by_uid) ==
    IF mbx.messages = <<>> THEN [items |-> <<>>, err |-> ""]
    ELSE IF by_uid THEN iter_by_uid(mbx, iter(sequences, mbx.highest_uid), <<>>)
    ELSE iter_by_seq(mbx, iter(sequences, mbx.exists), <<>>)

fetch_messages(w, c, sel, sequences, by_uid) ==
    LET chk == _check_selected(w, c, sel)
        it == _iter_messages(chk.result, sequences, by_uid)
    IN IF chk.err # "" THEN chk
       ELSE IF it.err # "" THEN Raise(w, it.err)
       ELSE Ok(w, it.items)

Reverse(s) == [i \in 1..Len(s) |-> s[Len(s) + 1 - i]]

\* sorted(expunged.items(), key=lambda t: t[0]): ascending sequence numbers.
RECURSIVE sorted_by_seq(_)
sorted_by_seq(items) ==
    IF items = <<>> THEN <<>>
    ELSE LET m == CHOOSE i \in DOMAIN items :
                      \A j \in DOMAIN items : items[i].seq <= items[j].seq
             rest == [k \in 1..(Len(items) - 1) |->
                         IF k < m THEN items[k] ELSE items[k + 1]]
         IN <<items[m]>> \o sorted_by_seq(rest)

RECURSIVE remove_messages(_, _)
remove_messages(sel, items) ==
    IF items = <<>> THEN sel
    ELSE remove_messages(remove_message(sel, Head(items).seq, Head(items).uid),
                         Tail(items))

\* The fan-out of expunge_mailbox to every session of the selected name.
expunge_notify(w, name, expunged) ==
    LET sorted_expunged == sorted_by_seq(expunged)
    IN [w EXCEPT !.selected =
           [s \in Conns |->
               IF s \in _sessions(w, name)
               THEN updated_set(remove_messages(w.selected[s], sorted_expunged))
               ELSE w.selected[s]]]

\* The indices the loop of expunge_mailbox visits, highest first.
expunge_range(mbx, uid_set, by_uid) ==
    IF by_uid
    THEN Reverse([i \in DOMAIN iter_by_uid(mbx, iter(uid_set, mbx.highest_uid), <<>>).items |->
                     iter_by_uid(mbx, iter(uid_set, mbx.highest_uid), <<>>).items[i].seq])
    ELSE Reverse([i \in 1..mbx.exists |-> i])

\* expunged_items that takes every visited message, flagged or not.
expunged_items_unflagged(mbx, sel, messages) ==
    [i \in DOMAIN messages |->
        [seq |-> messages[i], uid |-> mbx.messages[messages[i]].uid]]

\* The expunged dict in insertion order: the (sequence number, UID) of each
\* visited message that carries \Deleted.
expunged_items(mbx, sel, messages) ==
    LET IsExpunged(item) == Deleted \in get_flags(mbx.messages[item.seq], sel)
    IN SelectSeq([i \in DOMAIN messages |->
                     [seq |-> messages[i], uid |-> mbx.messages[messages[i]].uid]],
                 IsExpunged)

\* messages[msg_idx:msg_idx + 1] = [] for every expunged index.
delete_messages(w, name, expunged) ==
    LET Stays(idx) == \A i \in DOMAIN expunged : expunged[i].seq # idx
        kept == SelectSeq([i \in DOMAIN w.mailboxes[name].messages |-> i], Stays)
    IN [w EXCEPT !.mailboxes[name].messages = [k \in DOMAIN kept |-> @[kept[k]]]]

expunge_found(w, sel, expunged) ==
    IF expunged # <<>>
    THEN Ok(expunge_notify(delete_messages(w, sel.name, expunged), sel.name,
                           expunged),
            expunged)
    ELSE Ok(w, expunged)

\* The result is the expunged dict in insertion order.
expunge_mailbox(w, c, sel, uid_set, by_uid) ==
    IF _check_selected(w, c, sel).err # "" THEN _check_selected(w, c, sel)
    ELSE expunge_found(w, sel,
             expunged_items(get_snapshot(w, sel.name), sel,
                            expunge_range(get_snapshot(w, sel.name), uid_set,
                                          by_uid)))

\* sorted(names): the names in the order LIST and LSUB report them.
sorted(names) ==
    LET Named(n) == n \in names
    IN SelectSeq(<<"A", "INBOX">>, Named)

list_mailboxes(w, c, subscribed) ==
    IF subscribed
    THEN Ok(w, sorted({n \in DOMAIN w.mailboxes : w.mailboxes[n].subscribed}
                          \cup {"INBOX"}))
    ELSE Ok(w, sorted(DOMAIN w.mailboxes))

\* subscribe that flips the flag instead of setting it.
subscribe_toggling(w, c, name) ==
    IF name \notin DOMAIN w.mailboxes THEN Raise(w, "MailboxNotFound")
    ELSE Ok([w EXCEPT !.mailboxes[name].subscribed = ~@], <<>>)

subscribe(w, c, name) ==
    IF name \notin DOMAIN w.mailboxes THEN Raise(w, "MailboxNotFound")
    ELSE Ok([w EXCEPT !.mailboxes[name].subscribed = TRUE], <<>>)

unsubscribe(w, c, name) ==
    IF name \notin DOMAIN w.mailboxes THEN Raise(w, "MailboxNotFound")
    ELSE Ok([w EXCEPT !.mailboxes[name].subscribed = FALSE], <<>>)

\* SearchCriteriaSet.matches for the keys ALL and DELETED.
matches(keys, msg, sel) == keys = "ALL" \/ Deleted \in get_flags(msg, sel)

search_found(w, mbx, sel, keys) ==
    LET Matching(msg_seq) == matches(keys, mbx.messages[msg_seq], sel)
    IN Ok(w, SelectSeq([i \in 1..mbx.exists |-> i], Matching))

search_mailbox(w, c, sel, keys) ==
    IF _check_selected(w, c, sel).err # "" THEN _check_selected(w, c, sel)
    ELSE search_found(w, get_snapshot(w, sel.name), sel, keys)

apply_flags(flags, flag_set, mode) ==
    IF mode = "REPLACE" THEN flag_set \cap permanent_flags
    ELSE IF mode = "ADD" THEN flags \cup (flag_set \cap permanent_flags)
    ELSE flags \ flag_set

\* copy_message that gives the copy the UID of its source.
copy_message_keeping_uid(w, sel, item, mailbox) ==
    LET dest_msg == [uid |-> item.msg.uid,
                     flags |-> apply_flags({}, get_flags(item.msg, sel), "REPLACE")]
    IN [w |-> [_increment_next_uid(w, mailbox).w EXCEPT
                  !.mailboxes[mailbox].recent = @ \cup {dest_msg.uid},
                  !.mailboxes[mailbox].messages = Append(@, dest_msg)],
        source_uid |-> item.msg.uid,
        result |-> [seq |-> Len(w.mailboxes[mailbox].messages) + 1,
                    msg |-> dest_msg]]

\* One round of the first loop of copy_messages: the state after it and the
\* (dest_seq, dest_msg) it adds to results.
copy_message(w, sel, item, mailbox) ==
    LET dest_msg == [uid |-> w.mailboxes[mailbox].next_uid,
                     flags |-> apply_flags({}, get_flags(item.msg, sel), "REPLACE")]
    IN [w |-> [_increment_next_uid(w, mailbox).w EXCEPT
                  !.mailboxes[mailbox].recent = @ \cup {dest_msg.uid},
                  !.mailboxes[mailbox].messages = Append(@, dest_msg)],
        source_uid |-> item.msg.uid,
        result |-> [seq |-> Len(w.mailboxes[mailbox].messages) + 1,
                    msg |-> dest_msg]]

RECURSIVE copy_loop(_, _, _, _, _, _)
RECURSIVE copy_next(_, _, _, _, _, _)
copy_loop(w, sel, items, mailbox, results, source_uids) ==
    IF items = <<>>
    THEN [w |-> w, results |-> results, source_uids |-> source_uids]
    ELSE copy_next(copy_message(w, sel, Head(items), mailbox), sel, Tail(items),
                   mailbox, results, source_uids)

copy_next(r, sel, items, mailbox, results, source_uids) ==
    copy_loop(r.w, sel, items, mailbox, Append(results, r.result),
              Append(source_uids, r.source_uid))

\* claim_recent that leaves the UID in the recent set of the mailbox.
claim_recent_unremoved(w, s, mailbox, msg_uid) ==
    IF msg_uid \in w.mailboxes[mailbox].recent
    THEN [w EXCEPT !.selected[s].recent = @ \cup {msg_uid}]
    ELSE w

\* if msg.uid in recent: add_recent, recent.remove.
claim_recent(w, s, mailbox, msg_uid) ==
    IF msg_uid \in w.mailboxes[mailbox].recent
    THEN [w EXCEPT !.selected[s].recent = @ \cup {msg_uid},
                   !.mailboxes[mailbox].recent = @ \ {msg_uid}]
    ELSE w

notify_copy(w, s, r) ==
    [w EXCEPT !.selected[s] = add_fetch(@, r.seq, get_flags(r.msg, w.selected[s]))]

\* The inner loop of the fan-out of copy_messages, for one session.
RECURSIVE copy_notify_session(_, _, _, _)
copy_notify_session(w, s, mailbox, results) ==
    IF results = <<>>
    THEN [w EXCEPT !.selected[s] = updated_set(@)]
    ELSE copy_notify_session(
             notify_copy(claim_recent(w, s, mailbox, Head(results).msg.uid), s,
                         Head(results)),
             s, mailbox, Tail(results))

RECURSIVE copy_notify(_, _, _, _)
copy_notify(w, order, mailbox, results) ==
    IF order = <<>> THEN w
    ELSE copy_notify(copy_notify_session(w, Head(order), mailbox, results),
                     Tail(order), mailbox, results)

\* The orders in which the set MailboxState.sessions may be iterated.
Orders(S) ==
    {o \in [1..Cardinality(S) -> S] : \A i, j \in DOMAIN o : i # j => o[i] # o[j]}

\* CopyUid's two lists of UIDs, or None.
copy_uid(l) ==
    IF l.source_uids # <<>> /\ l.results # <<>>
    THEN <<l.source_uids, [i \in DOMAIN l.results |-> l.results[i].msg.uid]>>
    ELSE <<>>

\* copy_messages after its first loop; l is what the loop left.
copied(it, l, order, mailbox) ==
    IF it.err # "" THEN Raise(l.w, it.err)
    ELSE Ok(copy_notify(l.w, order, mailbox, l.results), copy_uid(l))

copy_found(w, sel, it, order, mailbox) ==
    copied(it, copy_loop(w, sel, it.items, mailbox, <<>>, <<>>), order, mailbox)

\* order: the order in which this run iterates the sessions of the
\* destination.
copy_messages(w, c, sel, sequences, by_uid, mailbox, order) ==
    IF _check_selected(w, c, sel).err # "" THEN _check_selected(w, c, sel)
    ELSE IF _get_mailbox(w, c, mailbox).err # ""
    THEN Raise(w, "MailboxNotFound")
    ELSE copy_found(w, sel,
                    _iter_messages(get_snapshot(w, sel.name), sequences, by_uid),
                    order, mailbox)

\* notify_flags that also tells the session that made the change.
notify_flags_self(w, c, name, msg_seq, new_flags) ==
    [w EXCEPT !.selected =
        [s \in Conns |->
            IF s \in _sessions(w, name)
            THEN updated_set(add_fetch(w.selected[s], msg_seq, new_flags))
            ELSE w.selected[s]]]

\* One round of the loop of update_flags.
notify_flags(w, c, name, msg_seq, new_flags) ==
    [w EXCEPT !.selected =
        [s \in Conns |->
            IF s \in _sessions(w, name) /\ s # c
            THEN updated_set(add_fetch(w.selected[s], msg_seq, new_flags))
            ELSE w.selected[s]]]

update_message_flags(w, c, sel, item, flag_set, mode) ==
    notify_flags([w EXCEPT !.mailboxes[sel.name].messages[item.seq].flags =
                               apply_flags(@, flag_set, mode)],
                 c, sel.name, item.seq,
                 apply_flags(w.mailboxes[sel.name].messages[item.seq].flags,
                             flag_set, mode))

RECURSIVE update_loop(_, _, _, _, _, _)
update_loop(w, c, sel, items, flag_set, mode) ==
    IF items = <<>> THEN w
    ELSE update_loop(update_message_flags(w, c, sel, Head(items), flag_set, mode),
                     c, sel, Tail(items), flag_set, mode)

updated_messages(w, c, sel, it, flag_set, mode) ==
    IF it.err # ""
    THEN Raise(update_loop(w, c, sel, it.items, flag_set, mode), it.err)
    ELSE Ok(update_loop(w, c, sel, it.items, flag_set, mode), it.items)

update_flags(w, c, sel, sequences, by_uid, flag_set, mode) ==
    IF _check_selected(w, c, sel).err # "" THEN _check_selected(w, c, sel)
    ELSE updated_messages(w, c, sel,
                          _iter_messages(get_snapshot(w, sel.name), sequences,
                                         by_uid),
                          flag_set, mode)

---------------------------------------------------------------------------
(* ConnectionState (pymap/state.py).  A handler returns the new state, the *)
(* response and what the Session operation it called returned.             *)

Handled(w, resp, result) == [w |-> w, resp |-> resp, result |-> result]

\* An exception the handler does not catch.
Escapes(w, exc) == Handled(w, Raised(exc), <<>>)

\* The credential callback given to ConnectionState: the session, or None
\* when Session.login refuses the credentials.
backend(cmd) ==
    LET r == login(cmd.authcid, cmd.secret)
    IN IF r.err = "InvalidAuth" THEN None ELSE r.result

\* do_authenticate that answers OK whatever the callback returned.
do_authenticate_unchecked(w, c, cmd) ==
    Handled([w EXCEPT !.session[c] = cmd.authcid, !.views[c] = {}],
            ResponseOk("Authentication successful."), cmd.authcid)

do_authenticate(w, c, cmd) ==
    LET user == backend(cmd)
        w1 == [w EXCEPT !.session[c] = user, !.views[c] = {}]
    IN IF user # None
       THEN Handled(w1, ResponseOk("Authentication successful."), user)
       ELSE Handled(w1, ResponseNo("Invalid authentication credentials."), user)

do_noop(w, c, cmd) == Handled(w, ResponseOk("NOOP completed."), <<>>)

do_check(w, c, cmd) == Handled(w, ResponseOk("CHECK completed."), <<>>)

_get_mailbox_response_data(w, sel, examine) ==
    LET mb == w.mailboxes[sel.name]
    IN <<Data("FLAGS", 0, Flags \cup {Recent}),
         Data("EXISTS", Len(mb.messages), {}),
         Data("RECENT", Cardinality(sel.recent), {}),
         Data("UIDNEXT", mb.next_uid, {}),
         Data("UIDVALIDITY", mb.uid_validity, {}),
         Data("PERMANENTFLAGS", 0,
              IF sel.readonly \/ examine THEN {} ELSE permanent_flags)>>

\* do_select and do_examine differ in the examine flag only.  Assigning
\* self.selected drops the previous SelectedMailbox.
\* select_or_examine with the previous selection left in the registry.
select_or_examine_keeping(w, c, cmd, examine) ==
    LET r == select_mailbox(w, c, cmd.mailbox, examine)
    IN IF r.err = "MailboxNotFound"
       THEN Handled(w, ResponseNo("Mailbox does not exist."), <<>>)
       ELSE LET w1 == [r.w EXCEPT !.selected[c] = poll(r.result).sel]
                code == IF r.result.readonly \/ examine
                        THEN "READ-ONLY" ELSE "READ-WRITE"
                text == IF examine THEN "Examined mailbox." ELSE "Selected mailbox."
            IN Handled(w1,
                       add_all(Response("OK", text, code),
                               _get_mailbox_response_data(w1, w1.selected[c],
                                                          examine)),
                       <<>>)

select_or_examine(w, c, cmd, examine) ==
    LET r == select_mailbox(unregister(w, c), c, cmd.mailbox, examine)
    IN IF r.err = "MailboxNotFound"
       THEN Handled(w, ResponseNo("Mailbox does not exist."), <<>>)
       ELSE LET w1 == [r.w EXCEPT !.selected[c] = poll(r.result).sel]
                code == IF r.result.readonly \/ examine
                        THEN "READ-ONLY" ELSE "READ-WRITE"
                text == IF examine THEN "Examined mailbox." ELSE "Selected mailbox."
            IN Handled(w1,
                       add_all(Response("OK", text, code),
                               _get_mailbox_response_data(w1, w1.selected[c],
                                                          examine)),
                       <<>>)

do_select(w, c, cmd) == select_or_examine(w, c, cmd, FALSE)

do_examine(w, c, cmd) == select_or_examine(w, c, cmd, TRUE)

\* do_status that takes the recent messages of the mailbox as a SELECT does.
do_status_claiming(w, c, cmd) ==
    IF get_mailbox(w, c, cmd.mailbox).err = "MailboxNotFound"
    THEN Handled(w, ResponseNo("Mailbox does not exist."), <<>>)
    ELSE Handled([w EXCEPT !.mailboxes[cmd.mailbox].recent = {}],
                 add_all(ResponseOk("STATUS completed."),
                         <<Data("MESSAGES", get_mailbox(w, c, cmd.mailbox).result.exists, {}),
                           Data("STATUS.RECENT", get_mailbox(w, c, cmd.mailbox).result.recent, {}),
                           Data("STATUS.UIDNEXT", get_mailbox(w, c, cmd.mailbox).result.next_uid, {}),
                           Data("STATUS.UIDVALIDITY", get_mailbox(w, c, cmd.mailbox).result.uid_validity, {})>>),
                 <<>>)

\* The mailbox STATUS names is a snapshot of its own: its poll() finds no
\* update and the selection's queue is left as it is.
do_status(w, c, cmd) ==
    LET r == get_mailbox(w, c, cmd.mailbox)
        mbx == r.result
    IN IF r.err = "MailboxNotFound"
       THEN Handled(w, ResponseNo("Mailbox does not exist."), <<>>)
       ELSE Handled(w,
                    add_all(ResponseOk("STATUS completed."),
                            <<Data("MESSAGES", mbx.exists, {}),
                              Data("STATUS.RECENT", mbx.recent, {}),
                              Data("STATUS.UIDNEXT", mbx.next_uid, {}),
                              Data("STATUS.UIDVALIDITY", mbx.uid_validity, {})>>),
                    <<>>)

do_append(w, c, cmd) ==
    IF get_mailbox(w, c, cmd.mailbox).err = "MailboxNotFound"
    THEN Handled(w, Response("NO", "Mailbox does not exist.", "TRYCREATE"), <<>>)
    ELSE LET r == append_messages(w, c, cmd.mailbox, <<cmd.flag_list>>)
         IN Handled(r.w, ResponseOk("APPEND completed."), r.result)

do_create(w, c, cmd) ==
    IF cmd.mailbox = "INBOX"
    THEN Handled(w, ResponseNo("Cannot create INBOX."), <<>>)
    ELSE LET r == create_mailbox(w, c, cmd.mailbox)
         IN IF r.err = "MailboxConflict"
            THEN Handled(w, ResponseNo("Mailbox already exists."), <<>>)
            ELSE Handled(r.w, ResponseOk("Mailbox created successfully."), <<>>)

do_delete(w, c, cmd) ==
    IF cmd.mailbox = "INBOX"
    THEN Handled(w, ResponseNo("Cannot delete INBOX."), <<>>)
    ELSE LET r == delete_mailbox(w, c, cmd.mailbox)
         IN IF r.err = "MailboxNotFound"
            THEN Handled(w, ResponseNo("Mailbox not found."), <<>>)
            ELSE Handled(r.w, ResponseOk("Mailbox deleted successfully."), <<>>)

\* cmd.to_mailbox == b'INBOX': the name is a str, which equals no bytes value.
is_bytes_INBOX(name) == FALSE

do_rename(w, c, cmd) ==
    IF is_bytes_INBOX(cmd.to_mailbox)
    THEN Handled(w, ResponseNo("Cannot rename to INBOX."), <<>>)
    ELSE LET r == rename_mailbox(w, c, cmd.mailbox, cmd.to_mailbox)
         IN IF r.err = "MailboxNotFound"
            THEN Handled(w, ResponseNo("Mailbox not found."), <<>>)
            ELSE IF r.err = "MailboxConflict"
            THEN Handled(w, ResponseNo("Mailbox already exists."), <<>>)
            ELSE Handled(r.w, ResponseOk("Mailbox renamed successfully."), <<>>)

\* do_close and do_expunge after expunge_mailbox returned r.
\* closed without the selection leaving the registry.
closed_registered(w, c, r) ==
    IF r.err # "" THEN Escapes(w, r.err)
    ELSE Handled([r.w EXCEPT !.selected[c] = NoSelection],
                 ResponseOk("CLOSE completed."), r.result)

closed(w, c, r) ==
    IF r.err # "" THEN Escapes(w, r.err)
    ELSE Handled([unregister(r.w, c) EXCEPT !.selected[c] = NoSelection],
                 ResponseOk("CLOSE completed."), r.result)

do_close(w, c, cmd) ==
    closed(w, c, expunge_mailbox(w, c, w.selected[c], [lo |-> 1, hi |-> 0], FALSE))

expunged_response(w, r) ==
    IF r.err # "" THEN Escapes(w, r.err)
    ELSE Handled(r.w,
                 add_all(ResponseOk("EXPUNGE completed."),
                         [i \in DOMAIN r.result |->
                             Data("EXPUNGE", r.result[i].seq, {})]),
                 r.result)

do_expunge(w, c, cmd) ==
    expunged_response(w, expunge_mailbox(w, c, w.selected[c],
                                         [lo |-> 1, hi |-> 0], FALSE))

_get_messages(w, c, seq_set, by_uid) ==
    fetch_messages(w, c, w.selected[c], seq_set, by_uid)

copy_response(w, messages, r) ==
    IF messages.err # "" THEN Escapes(w, messages.err)
    ELSE IF r.err = "MailboxNotFound"
    THEN Handled(w, Response("NO", "Mailbox does not exist.", "TRYCREATE"), <<>>)
    ELSE IF r.err # "" THEN Escapes(r.w, r.err)
    ELSE Handled(r.w, ResponseOk("COPY completed."), r.result)

do_copy(w, c, cmd, order) ==
    copy_response(w, _get_messages(w, c, cmd.sequence_set, cmd.uid),
                  copy_messages(w, c, w.selected[c], cmd.sequence_set, cmd.uid,
                                cmd.mailbox, order))

FetchData(w, c, items) ==
    [i \in DOMAIN items |->
        Data("FETCH", items[i].seq,
             get_flags(w.mailboxes[w.selected[c].name].messages[items[i].seq],
                       w.selected[c]))]

fetch_response(w, c, messages) ==
    IF messages.err # "" THEN Escapes(w, messages.err)
    ELSE Handled(w, add_all(ResponseOk("FETCH completed."),
                            FetchData(w, c, messages.result)),
                 <<>>)

do_fetch(w, c, cmd) ==
    fetch_response(w, c, _get_messages(w, c, cmd.sequence_set, cmd.uid))

store_response(w, c, cmd, messages, r) ==
    IF messages.err # "" THEN Escapes(w, messages.err)
    ELSE IF r.err # "" THEN Escapes(r.w, r.err)
    ELSE Handled(r.w,
                 IF cmd.silent THEN ResponseOk("STORE completed.")
                 ELSE add_all(ResponseOk("STORE completed."),
                              FetchData(r.w, c, messages.result)),
                 <<>>)

do_store(w, c, cmd) ==
    store_response(w, c, cmd, _get_messages(w, c, cmd.sequence_set, cmd.uid),
                   update_flags(w, c, w.selected[c], cmd.sequence_set, cmd.uid,
                                cmd.flag_list, cmd.mode))

do_capability(w, c, cmd) ==
    Handled(w, add_data(ResponseOk("Capabilities listed."),
                        Data("CAPABILITY", 0, {})), <<>>)

do_subscribe(w, c, cmd) ==
    LET r == subscribe(w, c, cmd.mailbox)
    IN IF r.err # "" THEN Escapes(w, r.err)
       ELSE Handled(r.w, ResponseOk("SUBSCRIBE completed."), <<>>)

do_unsubscribe(w, c, cmd) ==
    LET r == unsubscribe(w, c, cmd.mailbox)
    IN IF r.err # "" THEN Escapes(w, r.err)
       ELSE Handled(r.w, ResponseOk("UNSUBSCRIBE completed."), <<>>)

NameData(kind, name) == [kind |-> kind, n |-> 0, flags |-> {}, name |-> name]

do_list(w, c, cmd) ==
    LET r == list_mailboxes(w, c, FALSE)
    IN Handled(w, add_all(ResponseOk("LIST completed."),
                          [i \in DOMAIN r.result |-> NameData("LIST", r.result[i])]),
               r.result)

do_lsub(w, c, cmd) ==
    LET r == list_mailboxes(w, c, TRUE)
    IN Handled(w, add_all(ResponseOk("LSUB completed."),
                          [i \in DOMAIN r.result |-> NameData("LSUB", r.result[i])]),
               r.result)

do_search(w, c, cmd) ==
    LET r == search_mailbox(w, c, w.selected[c], cmd.keys)
    IN IF r.err # "" THEN Escapes(w, r.err)
       ELSE Handled(w, add_data(ResponseOk("SEARCH completed."),
                                [kind |-> "SEARCH", n |-> 0, flags |-> {},
                                 seqs |-> r.result]),
                    r.result)

\* CloseConnection: the response is sent and the connection is closed; the
\* ConnectionState is dropped, its selection with it.
do_logout(w, c, cmd) ==
    Handled([unregister(w, c) EXCEPT !.selected[c] = NoSelection,
                                     !.session[c] = None, !.views[c] = {}],
            add_data(ResponseOk("Logout successful."), Data("BYE", 0, {})),
            <<>>)

\* getattr(self, 'do_' + command): the handlers ConnectionState defines.  LOGIN
\* and AUTHENTICATE reach do_authenticate with the credentials they carry.
Handlers ==
    {"LOGIN", "AUTHENTICATE", "CAPABILITY", "NOOP", "SELECT", "EXAMINE",
     "CREATE", "DELETE", "RENAME", "STATUS", "APPEND", "SUBSCRIBE",
     "UNSUBSCRIBE", "LIST", "LSUB", "CHECK", "CLOSE", "EXPUNGE", "COPY",
     "FETCH", "SEARCH", "STORE", "LOGOUT"}

func(w, c, cmd, order) ==
    CASE cmd.command \in {"LOGIN", "AUTHENTICATE"} -> do_authenticate(w, c, cmd)
      [] cmd.command = "CAPABILITY" -> do_capability(w, c, cmd)
      [] cmd.command = "NOOP" -> do_noop(w, c, cmd)
      [] cmd.command = "SUBSCRIBE" -> do_subscribe(w, c, cmd)
      [] cmd.command = "UNSUBSCRIBE" -> do_unsubscribe(w, c, cmd)
      [] cmd.command = "LIST" -> do_list(w, c, cmd)
      [] cmd.command = "LSUB" -> do_lsub(w, c, cmd)
      [] cmd.command = "SEARCH" -> do_search(w, c, cmd)
      [] cmd.command = "SELECT" -> do_select(w, c, cmd)
      [] cmd.command = "EXAMINE" -> do_examine(w, c, cmd)
      [] cmd.command = "CREATE" -> do_create(w, c, cmd)
      [] cmd.command = "DELETE" -> do_delete(w, c, cmd)
      [] cmd.command = "RENAME" -> do_rename(w, c, cmd)
      [] cmd.command = "STATUS" -> do_status(w, c, cmd)
      [] cmd.command = "APPEND" -> do_append(w, c, cmd)
      [] cmd.command = "CHECK" -> do_check(w, c, cmd)
      [] cmd.command = "CLOSE" -> do_close(w, c, cmd)
      [] cmd.command = "EXPUNGE" -> do_expunge(w, c, cmd)
      [] cmd.command = "COPY" -> do_copy(w, c, cmd, order)
      [] cmd.command = "FETCH" -> do_fetch(w, c, cmd)
      [] cmd.command = "STORE" -> do_store(w, c, cmd)
      [] cmd.command = "LOGOUT" -> do_logout(w, c, cmd)

\* The EXPUNGE and FETCH data the drain adds for the polled updates.
ExpungeData(updates) ==
    [i \in DOMAIN updates.expunge |-> Data("EXPUNGE", updates.expunge[i].seq, {})]

FetchUpdateData(updates) ==
    [i \in DOMAIN updates.fetch |->
        Data("FETCH", updates.fetch[i].seq, updates.fetch[i].flags)]

\* The four steps of _check_mailbox_updates, each on the response so far.
add_exists(resp, updates) ==
    IF updates.exists # 0
    THEN add_data(resp, Data("EXISTS", updates.exists, {})) ELSE resp

add_recent(resp, updates) ==
    IF updates.recent # -1
    THEN add_data(resp, Data("RECENT", updates.recent, {})) ELSE resp

add_expunge(resp, updates, send_expunge) ==
    IF updates.expunge # <<>> /\ send_expunge
    THEN add_all(resp, ExpungeData(updates)) ELSE resp

add_fetches(resp, updates) ==
    IF updates.fetch # <<>>
    THEN add_all(resp, FetchUpdateData(updates)) ELSE resp

\* add_updates with the FETCH items in front of the EXPUNGE items.
add_updates_fetch_first(resp, updates, send_expunge) ==
    add_expunge(add_fetches(add_recent(add_exists(resp, updates), updates),
                            updates),
                updates, send_expunge)

add_updates(resp, updates, send_expunge) ==
    add_fetches(add_expunge(add_recent(add_exists(resp, updates), updates),
                            updates, send_expunge),
                updates)

_check_mailbox_updates(w, c, cmd, resp) ==
    [w |-> [w EXCEPT !.selected[c] = poll(w.selected[c]).sel],
     resp |-> add_updates(resp, poll(w.selected[c]).updates,
                          ~no_expunge_response(cmd)),
     updates |-> poll(w.selected[c]).updates]

\* What do_command did: the state it left, the response, the handler it ran
\* ("" for none), whether it polled the selection and what the poll returned.
Done(w, resp, handler, result, polled, updates) ==
    [w |-> w, resp |-> resp, handler |-> handler, result |-> result,
     polled |-> polled, updates |-> updates]

Rejected(w, resp) == Done(w, resp, "", <<>>, FALSE, NoUpdates)

Undrained(cmd, h) == Done(h.w, h.resp, cmd.command, h.result, FALSE, NoUpdates)

Drained(cmd, h, d) == Done(d.w, d.resp, cmd.command, h.result, TRUE, d.updates)

\* self.selected and self.selected == pre_selected: the handler left the
\* SelectedMailbox object that was there before it ran.
same_selected(pre_selected, cmd, h, c) ==
    /\ h.w.selected[c] # NoSelection
    /\ pre_selected # NoSelection
    /\ ~(cmd.command \in {"SELECT", "EXAMINE"} /\ h.resp.status = "OK")

\* do_command from the call of the handler on; h is what the handler returned.
after_func(pre_selected, c, cmd, h) ==
    IF h.resp.status = "RAISED" \/ cmd.command = "LOGOUT"
    THEN Undrained(cmd, h)
    ELSE IF same_selected(pre_selected, cmd, h, c)
    THEN Drained(cmd, h, _check_mailbox_updates(h.w, c, cmd, h.resp))
    ELSE Undrained(cmd, h)

\* do_command without the test for a session in front of the Auth commands.
do_command_auth_ungated(w, c, cmd, order) ==
    IF w.session[c] # None /\ cmd.command \in CommandNonAuth
    THEN Rejected(w, ResponseBad(cmd.command \o ": Already authenticated."))
    ELSE IF w.selected[c] = NoSelection /\ cmd.command \in CommandSelect
    THEN Rejected(w, ResponseBad(cmd.command \o ": Must select a mailbox first."))
    ELSE IF cmd.command \notin Handlers
    THEN Rejected(w, ResponseNo(cmd.command \o ": Not Implemented"))
    ELSE after_func(w.selected[c], c, cmd, func(w, c, cmd, order))

do_command(w, c, cmd, order) ==
    IF w.session[c] # None /\ cmd.command \in CommandNonAuth
    THEN Rejected(w, ResponseBad(cmd.command \o ": Already authenticated."))
    ELSE IF w.session[c] = None /\ cmd.command \in CommandAuth
    THEN Rejected(w, ResponseBad(cmd.command \o ": Must authenticate first."))
    ELSE IF w.selected[c] = NoSelection /\ cmd.command \in CommandSelect
    THEN Rejected(w, ResponseBad(cmd.command \o ": Must select a mailbox first."))
    ELSE IF cmd.command \notin Handlers
    THEN Rejected(w, ResponseNo(cmd.command \o ": Not Implemented"))
    ELSE after_func(w.selected[c], c, cmd, func(w, c, cmd, order))

---------------------------------------------------------------------------
(* The state machine: one step is one command on one connection.           *)

\* The demo State at start-up: INBOX holds a message no session has seen yet.
InitMailboxes ==
    [n \in {"INBOX"} |->
        [messages |-> <<[uid |-> 1, flags |-> {}]>>,
         next_uid |-> 2, recent |-> {1}, subscribed |-> FALSE,
         uid_validity |-> 1, sessions |-> {}]]

Init ==
    /\ session = [c \in Conns |-> None]
    /\ selected = [c \in Conns |-> NoSelection]
    /\ views = [c \in Conns |-> {}]
    /\ mailboxes = InitMailboxes
    /\ clock = 1
    /\ last = [conn |-> "", cmd |-> Cmd("GREETING"),
               resp |-> ResponseOk("Server ready"), handler |-> "",
               result |-> <<>>, polled |-> FALSE, updates |-> NoUpdates]
    /\ waiting = [c \in Conns |-> FALSE]

Bounded(w) ==
    /\ w.clock <= MaxClock
    /\ \A n \in DOMAIN w.mailboxes : w.mailboxes[n].next_uid <= MaxNextUid
    /\ \A c \in Conns : Len(w.selected[c].pending) <= MaxPending

\* The state after a reply: d is what do_command returned.
Replied(c, cmd, d) ==
    /\ Bounded(d.w)
    /\ session' = d.w.session
    /\ selected' = d.w.selected
    /\ views' = d.w.views
    /\ mailboxes' = d.w.mailboxes
    /\ clock' = d.w.clock
    /\ last' = [conn |-> c, cmd |-> cmd, resp |-> d.resp, handler |-> d.handler,
                result |-> d.result, polled |-> d.polled, updates |-> d.updates]

\* The state after a command that was answered without suspending.
Answered(c, cmd, d) == Replied(c, cmd, d) /\ waiting' = waiting

\* Connection c sends cmd; do_command answers it.  A connection reads its
\* next command only after it replied to the last one.
Dispatch(c, cmd, order) ==
    ~waiting[c] /\ Answered(c, cmd, do_command(World, c, cmd, order))

\* A scenario bounds what the connections send: the commands of each
\* connection and the arguments the commands carry.
Sends(P, c, command) == command \in P.cmds[c]

\* CHECK served by check_mailbox(selected, block=True).
Blocking == [Cmd("CHECK") EXCEPT !.mode = "BLOCK"]

\* The handler of the blocking CHECK once check_mailbox has returned.
do_check_block(w, c, cmd) == Handled(w, ResponseOk("CHECK completed."), <<>>)

\* do_command for the blocking CHECK from the call of the handler on, up to
\* the reply or to the suspension in check_mailbox; r is what check_mailbox
\* has done so far.
check_block_begin(c, r) ==
    IF r.err # ""
    THEN Answered(c, Blocking, Undrained(Blocking, Escapes(World, r.err)))
    ELSE IF r.result = "suspended"
    THEN /\ waiting' = [waiting EXCEPT ![c] = TRUE]
         /\ UNCHANGED <<session, selected, views, mailboxes, clock, last>>
    ELSE Answered(c, Blocking,
                  after_func(selected[c], c, Blocking, do_check_block(r.w, c, Blocking)))

CheckBlock(P) ==
    \E c \in Conns :
        /\ Sends(P, c, "CHECK")
        /\ ~waiting[c]
        /\ IF do_command(World, c, Blocking, <<>>).handler = ""
           THEN Dispatch(c, Blocking, <<>>)
           ELSE check_block_begin(c, check_mailbox(World, c, selected[c], TRUE))

\* The task of connection c is scheduled again after updated.wait()
\* returned: check_mailbox clears the signal, the handler replies and
\* do_command drains the queue into the reply.
ResumeOf(c) ==
    /\ waiting[c]
    /\ selected[c].updated
    /\ Replied(c, Blocking,
               after_func(selected[c], c, Blocking,
                          do_check_block(check_mailbox_resumed(World, c).w, c, Blocking)))
    /\ waiting' = [waiting EXCEPT ![c] = FALSE]

Resume(P) == \E c \in Conns : Sends(P, c, "CHECK") /\ ResumeOf(c)

\* The connection of c is lost: its ConnectionState is dropped with its
\* session and its selection, and nothing is written.
Disconnect(P) ==
    \E c \in Conns :
        /\ Sends(P, c, "DISCONNECT")
        /\ ~waiting[c]
        /\ session[c] # None
        /\ Answered(c, Cmd("DISCONNECT"),
                    Rejected([unregister(World, c) EXCEPT !.selected[c] = NoSelection,
                                                          !.session[c] = None,
                                                          !.views[c] = {}],
                             Response("", "", "")))

OnMailbox(command, name) == [Cmd(command) EXCEPT !.mailbox = name]

Login(P) ==
    \E c \in Conns, command \in CommandNonAuth, secret \in P.secrets :
        /\ Sends(P, c, command)
        /\ Dispatch(c, [Cmd(command) EXCEPT !.authcid = "demouser",
                                            !.secret = secret], <<>>)

Capability(P) ==
    \E c \in Conns : Sends(P, c, "CAPABILITY") /\ Dispatch(c, Cmd("CAPABILITY"), <<>>)

Noop(P) == \E c \in Conns : Sends(P, c, "NOOP") /\ Dispatch(c, Cmd("NOOP"), <<>>)

Select(P) ==
    \E c \in Conns, n \in P.names :
        Sends(P, c, "SELECT") /\ Dispatch(c, OnMailbox("SELECT", n), <<>>)

Examine(P) ==
    \E c \in Conns, n \in P.names :
        Sends(P, c, "EXAMINE") /\ Dispatch(c, OnMailbox("EXAMINE", n), <<>>)

Create(P) ==
    \E c \in Conns, n \in P.names :
        Sends(P, c, "CREATE") /\ Dispatch(c, OnMailbox("CREATE", n), <<>>)

Delete(P) ==
    \E c \in Conns, n \in P.names :
        Sends(P, c, "DELETE") /\ Dispatch(c, OnMailbox("DELETE", n), <<>>)

Rename(P) ==
    \E c \in Conns, n \in P.names, m \in P.names :
        /\ Sends(P, c, "RENAME")
        /\ Dispatch(c, [Cmd("RENAME") EXCEPT !.mailbox = n, !.to_mailbox = m], <<>>)

Status(P) ==
    \E c \in Conns, n \in P.names :
        Sends(P, c, "STATUS") /\ Dispatch(c, OnMailbox("STATUS", n), <<>>)

AppendMsg(P) ==
    \E c \in Conns, n \in P.names, f \in P.flags :
        /\ Sends(P, c, "APPEND")
        /\ Dispatch(c, [Cmd("APPEND") EXCEPT !.mailbox = n, !.flag_list = f], <<>>)

Subscribe(P) ==
    \E c \in Conns, n \in P.names :
        Sends(P, c, "SUBSCRIBE") /\ Dispatch(c, OnMailbox("SUBSCRIBE", n), <<>>)

Unsubscribe(P) ==
    \E c \in Conns, n \in P.names :
        Sends(P, c, "UNSUBSCRIBE") /\ Dispatch(c, OnMailbox("UNSUBSCRIBE", n), <<>>)

List(P) == \E c \in Conns : Sends(P, c, "LIST") /\ Dispatch(c, Cmd("LIST"), <<>>)

Lsub(P) == \E c \in Conns : Sends(P, c, "LSUB") /\ Dispatch(c, Cmd("LSUB"), <<>>)

Check(P) == \E c \in Conns : Sends(P, c, "CHECK") /\ Dispatch(c, Cmd("CHECK"), <<>>)

Close(P) == \E c \in Conns : Sends(P, c, "CLOSE") /\ Dispatch(c, Cmd("CLOSE"), <<>>)

Expunge(P) ==
    \E c \in Conns : Sends(P, c, "EXPUNGE") /\ Dispatch(c, Cmd("EXPUNGE"), <<>>)

Copy(P) ==
    \E c \in Conns, n \in P.names, q \in P.seqs, u \in P.uids :
        \E order \in Orders(IF n \in DOMAIN mailboxes
                            THEN mailboxes[n].sessions ELSE {}) :
            /\ Sends(P, c, "COPY")
            /\ Dispatch(c, [Cmd("COPY") EXCEPT !.mailbox = n, !.sequence_set = q,
                                               !.uid = u], order)

Fetch(P) ==
    \E c \in Conns, q \in P.seqs, u \in P.uids :
        /\ Sends(P, c, "FETCH")
        /\ Dispatch(c, [Cmd("FETCH") EXCEPT !.sequence_set = q, !.uid = u], <<>>)

Search(P) ==
    \E c \in Conns, k \in {"ALL", "DELETED"} :
        /\ Sends(P, c, "SEARCH")
        /\ Dispatch(c, [Cmd("SEARCH") EXCEPT !.keys = k], <<>>)

Store(P) ==
    \E c \in Conns, q \in P.seqs, u \in P.uids, m \in P.modes,
       silent \in P.silent :
        /\ Sends(P, c, "STORE")
        /\ Dispatch(c, [Cmd("STORE") EXCEPT !.sequence_set = q, !.uid = u,
                                            !.flag_list = {Deleted}, !.mode = m,
                                            !.silent = silent], <<>>)

Logout(P) == \E c \in Conns : Sends(P, c, "LOGOUT") /\ Dispatch(c, Cmd("LOGOUT"), <<>>)

\* A command ConnectionState has no handler for.
Unknown(P) == \E c \in Conns : Sends(P, c, "IDLE") /\ Dispatch(c, Cmd("IDLE"), <<>>)

One == [lo |-> 1, hi |-> 1]
Two == [lo |-> 2, hi |-> 2]
All == [lo |-> 1, hi |-> 0]

Nobody == [c \in Conns |-> {}]

\* One client sends every command; the other one logs in and selects.
Single ==
    [cmds |-> [Nobody EXCEPT !["c1"] = Handlers \cup {"IDLE"},
                             !["c2"] = {"LOGIN", "SELECT"}],
     names |-> {"INBOX"}, secrets |-> {"demopass", "wrong"}, flags |-> {{}},
     seqs |-> {All}, uids |-> {FALSE}, modes |-> {"ADD"},
     silent |-> BOOLEAN]

Next ==
    \/ Login(Single) \/ Capability(Single) \/ Noop(Single) \/ Select(Single)
    \/ Examine(Single) \/ Create(Single) \/ Delete(Single) \/ Rename(Single)
    \/ Status(Single) \/ AppendMsg(Single) \/ Subscribe(Single)
    \/ Unsubscribe(Single) \/ List(Single) \/ Lsub(Single) \/ Check(Single)
    \/ Close(Single) \/ Expunge(Single) \/ Copy(Single) \/ Fetch(Single)
    \/ Search(Single) \/ Store(Single) \/ Logout(Single) \/ Unknown(Single)

Spec == Init /\ [][Next]_vars

\* Two clients on the one mailbox: delivery, flags and expunge.
Shared ==
    [cmds |-> [c \in Conns |->
                  {"LOGIN", "SELECT", "NOOP", "CHECK", "FETCH", "APPEND", "STORE",
                   "EXPUNGE"}],
     names |-> {"INBOX"}, secrets |-> {"demopass"}, flags |-> {{}, {Deleted}},
     seqs |-> {One, All}, uids |-> {FALSE}, modes |-> {"ADD"},
     silent |-> BOOLEAN]

NextShared ==
    \/ Login(Shared) \/ Select(Shared) \/ Noop(Shared) \/ Check(Shared)
    \/ Fetch(Shared) \/ AppendMsg(Shared) \/ Store(Shared) \/ Expunge(Shared)

SpecShared == Init /\ [][NextShared]_vars

\* Two clients that add, copy, expunge and rename over two names.
Uids ==
    [cmds |-> [Nobody EXCEPT
                  !["c1"] = {"LOGIN", "SELECT", "APPEND", "COPY", "EXPUNGE",
                             "RENAME", "CREATE"},
                  !["c2"] = {"LOGIN", "APPEND"}],
     names |-> Names, secrets |-> {"demopass"}, flags |-> {{}, {Deleted}},
     seqs |-> {One, All}, uids |-> {FALSE}, modes |-> {"ADD"},
     silent |-> BOOLEAN]

NextUids ==
    \/ Login(Uids) \/ Select(Uids) \/ AppendMsg(Uids) \/ Copy(Uids)
    \/ Expunge(Uids) \/ Rename(Uids) \/ Create(Uids)

SpecUids == Init /\ [][NextUids]_vars

\* Two clients on both mailboxes: one copies between them, both select,
\* append and read.
Copying ==
    [cmds |-> [Nobody EXCEPT
                  !["c1"] = {"LOGIN", "SELECT", "CREATE", "COPY", "NOOP"},
                  !["c2"] = {"LOGIN", "SELECT", "APPEND", "NOOP"}],
     names |-> Names, secrets |-> {"demopass"}, flags |-> {{}},
     seqs |-> {One, All}, uids |-> {FALSE, TRUE}, modes |-> {"ADD"},
     silent |-> BOOLEAN]

NextCopying ==
    \/ Login(Copying) \/ Select(Copying) \/ Create(Copying) \/ Copy(Copying)
    \/ AppendMsg(Copying) \/ Noop(Copying)

SpecCopying == Init /\ [][NextCopying]_vars

\* One client creates, deletes and renames mailboxes and works on its
\* selection; the other one renames and subscribes.
Renaming ==
    [cmds |-> [Nobody EXCEPT
                  !["c1"] = {"LOGIN", "SELECT", "CREATE", "DELETE", "RENAME",
                             "FETCH", "SEARCH", "STORE", "EXPUNGE", "COPY"},
                  !["c2"] = {"LOGIN", "RENAME", "SUBSCRIBE"}],
     names |-> Names, secrets |-> {"demopass"}, flags |-> {{Deleted}},
     seqs |-> {All}, uids |-> {FALSE}, modes |-> {"ADD"}, silent |-> {FALSE}]

NextRenaming ==
    \/ Login(Renaming) \/ Select(Renaming) \/ Create(Renaming) \/ Delete(Renaming)
    \/ Rename(Renaming) \/ Subscribe(Renaming) \/ Fetch(Renaming)
    \/ Search(Renaming) \/ Store(Renaming) \/ Expunge(Renaming) \/ Copy(Renaming)

SpecRenaming == Init /\ [][NextRenaming]_vars

\* Mailbox names with a hierarchy: A.B is below A.
Nested ==
    [cmds |-> [Nobody EXCEPT
                  !["c1"] = {"LOGIN", "SELECT", "CREATE", "DELETE", "RENAME"},
                  !["c2"] = {"LOGIN", "DELETE", "SUBSCRIBE"}],
     names |-> {"INBOX", "A", "A.B"}, secrets |-> {"demopass"}, flags |-> {{}},
     seqs |-> {All}, uids |-> {FALSE}, modes |-> {"ADD"}, silent |-> {FALSE}]

NextNested ==
    \/ Login(Nested) \/ Select(Nested) \/ Create(Nested) \/ Delete(Nested)
    \/ Rename(Nested) \/ Subscribe(Nested)

SpecNested == Init /\ [][NextNested]_vars

\* Subscriptions of two clients while mailboxes are created and renamed.
Subscribing ==
    [cmds |-> [Nobody EXCEPT
                  !["c1"] = {"LOGIN", "CREATE", "RENAME", "SUBSCRIBE",
                             "UNSUBSCRIBE", "LSUB"},
                  !["c2"] = {"LOGIN", "SELECT", "SUBSCRIBE", "LSUB"}],
     names |-> Names, secrets |-> {"demopass"}, flags |-> {{}},
     seqs |-> {All}, uids |-> {FALSE}, modes |-> {"ADD"}, silent |-> {FALSE}]

NextSubscribing ==
    \/ Login(Subscribing) \/ Select(Subscribing) \/ Create(Subscribing)
    \/ Rename(Subscribing) \/ Subscribe(Subscribing) \/ Unsubscribe(Subscribing)
    \/ Lsub(Subscribing)

SpecSubscribing == Init /\ [][NextSubscribing]_vars

\* One client selects, closes, logs out and gets disconnected; the other
\* one appends and selects.
Leaving ==
    [cmds |-> [Nobody EXCEPT
                  !["c1"] = {"LOGIN", "SELECT", "EXAMINE", "CLOSE", "LOGOUT",
                             "DISCONNECT", "CREATE", "NOOP"},
                  !["c2"] = {"LOGIN", "SELECT", "APPEND"}],
     names |-> Names, secrets |-> {"demopass"}, flags |-> {{Deleted}},
     seqs |-> {All}, uids |-> {FALSE}, modes |-> {"ADD"}, silent |-> {FALSE}]

NextLeaving ==
    \/ Login(Leaving) \/ Select(Leaving) \/ Examine(Leaving) \/ Close(Leaving)
    \/ Logout(Leaving) \/ Disconnect(Leaving) \/ Create(Leaving)
    \/ Noop(Leaving) \/ AppendMsg(Leaving)

SpecLeaving == Init /\ [][NextLeaving]_vars

\* One client waits in a blocking CHECK on INBOX while the other appends
\* and expunges there.
Waiting ==
    [cmds |-> [Nobody EXCEPT !["c1"] = {"LOGIN", "SELECT", "CHECK", "NOOP"},
                             !["c2"] = {"LOGIN", "SELECT", "APPEND", "EXPUNGE"}],
     names |-> {"INBOX"}, secrets |-> {"demopass"}, flags |-> {{}, {Deleted}},
     seqs |-> {All}, uids |-> {FALSE}, modes |-> {"ADD"}, silent |-> {FALSE}]

NextWaiting ==
    \/ Login(Waiting) \/ Select(Waiting) \/ CheckBlock(Waiting) \/ Resume(Waiting)
    \/ AppendMsg(Waiting) \/ Expunge(Waiting) \/ Noop(Waiting)

\* The executor runs every task that is ready: a connection whose signal is
\* set while it waits is resumed.
SpecWaiting ==
    Init /\ [][NextWaiting]_vars /\ \A c \in Conns : WF_vars(ResumeOf(c))

\* One client creates, deletes, appends and copies by name while the other
\* one has a mailbox selected.
Missing ==
    [cmds |-> [Nobody EXCEPT
                  !["c1"] = {"LOGIN", "SELECT", "CREATE", "DELETE", "APPEND",
                             "COPY"},
                  !["c2"] = {"LOGIN", "SELECT"}],
     names |-> Names, secrets |-> {"demopass"}, flags |-> {{}},
     seqs |-> {All}, uids |-> {FALSE}, modes |-> {"ADD"}, silent |-> {FALSE}]

NextMissing ==
    \/ Login(Missing) \/ Select(Missing) \/ Create(Missing) \/ Delete(Missing)
    \/ AppendMsg(Missing) \/ Copy(Missing)

SpecMissing == Init /\ [][NextMissing]_vars

\* One client examines INBOX and expunges, closes and stores there; the
\* other one has INBOX selected and appends.
Examining ==
    [cmds |-> [Nobody EXCEPT
                  !["c1"] = {"LOGIN", "EXAMINE", "EXPUNGE", "CLOSE", "STORE"},
                  !["c2"] = {"LOGIN", "SELECT", "APPEND"}],
     names |-> {"INBOX"}, secrets |-> {"demopass"}, flags |-> {{Deleted}},
     seqs |-> {All}, uids |-> {FALSE}, modes |-> {"ADD"}, silent |-> {FALSE}]

NextExamining ==
    \/ Login(Examining) \/ Select(Examining) \/ Examine(Examining)
    \/ Expunge(Examining) \/ Close(Examining) \/ Store(Examining)
    \/ AppendMsg(Examining)

SpecExamining == Init /\ [][NextExamining]_vars

\* One client deletes, renames and fetches by sequence number, also past
\* the last message; the other one stores and expunges on its selection.
Looking ==
    [cmds |-> [Nobody EXCEPT
                  !["c1"] = {"LOGIN", "SELECT", "CREATE", "DELETE", "RENAME",
                             "FETCH"},
                  !["c2"] = {"LOGIN", "SELECT", "STORE", "EXPUNGE"}],
     names |-> Names, secrets |-> {"demopass"}, flags |-> {{Deleted}},
     seqs |-> {Two, All}, uids |-> {FALSE}, modes |-> {"ADD"},
     silent |-> {FALSE}]

NextLooking ==
    \/ Login(Looking) \/ Select(Looking) \/ Create(Looking) \/ Delete(Looking)
    \/ Rename(Looking) \/ Fetch(Looking) \/ Store(Looking) \/ Expunge(Looking)

SpecLooking == Init /\ [][NextLooking]_vars

---------------------------------------------------------------------------
(* Properties.                                                             *)

\* The connection and the command of the step, and the reply to it.
Conn == last'.conn
Sent == last'.cmd
Reply == last'.resp

\* C1: a NonAuth command with a session present, an Auth command with no
\* session and a Select command with no selection are each answered BAD with
\* the text of their class; no handler runs, and the session, the selection
\* and every mailbox stay as they were.
GatingRejects ==
    [][/\ session[Conn] # None /\ Sent.command \in {"LOGIN", "AUTHENTICATE"}
          => Reply = ResponseBad(Sent.command \o ": Already authenticated.")
       /\ session[Conn] = None
          /\ Sent.command \in {"CREATE", "DELETE", "RENAME", "LIST", "LSUB",
                               "SUBSCRIBE", "UNSUBSCRIBE", "STATUS", "APPEND",
                               "SELECT", "EXAMINE"}
          => Reply = ResponseBad(Sent.command \o ": Must authenticate first.")
       /\ selected[Conn] = NoSelection
          /\ Sent.command \in {"CHECK", "CLOSE", "EXPUNGE", "FETCH", "STORE",
                               "SEARCH", "COPY"}
          => Reply = ResponseBad(Sent.command \o ": Must select a mailbox first.")
       /\ Reply.status = "BAD"
          => /\ last'.handler = ""
             /\ session' = session
             /\ selected' = selected
             /\ mailboxes' = mailboxes
             /\ views' = views]_vars

GatingRejectsWitness ==
    /\ last.cmd.command = "LOGIN"
    /\ last.resp = ResponseBad("LOGIN: Already authenticated.")
    /\ session[last.conn] = "demouser"
    /\ selected[last.conn] # NoSelection

Pending(q, kind) ==
    LET OfKind(u) == u.kind = kind
    IN SelectSeq(q, OfKind)

\* The data items of one kind in a response, in the order of the reply.
Items(resp, kind) ==
    LET OfKind(item) == item.kind = kind
    IN SelectSeq(resp.data, OfKind)

\* The handler of the step ran on a selection and left that selection.
KeptSelection ==
    /\ last'.handler # ""
    /\ selected[Conn] # NoSelection
    /\ selected'[Conn] # NoSelection
    /\ ~(Sent.command \in {"SELECT", "EXAMINE"} /\ Reply.status = "OK")

\* Every update of the queue q is in the reply.
Delivered(q, resp) ==
    /\ Pending(q, "exists") # <<>> => Items(resp, "EXISTS") # <<>>
    /\ Pending(q, "recent") # <<>> => Items(resp, "RECENT") # <<>>
    /\ \A i \in DOMAIN q :
          /\ q[i].kind = "expunge"
             => \E j \in DOMAIN resp.data :
                    resp.data[j].kind = "EXPUNGE" /\ resp.data[j].n = q[i].seq
          /\ q[i].kind = "fetch"
             => \E j \in DOMAIN resp.data :
                    /\ resp.data[j].kind = "FETCH"
                    /\ resp.data[j].n = q[i].seq
                    /\ resp.data[j].flags = q[i].flags

\* C3: after a handler that ran on a selection and left it in place,
\* do_command polls the queue of the selection, puts the updates that were
\* pending into the reply and leaves the queue empty; NOOP, CHECK and FETCH in
\* the Selected state always do so.
DrainAfterHandler ==
    [][/\ KeptSelection /\ Reply.status # "RAISED"
          => /\ last'.polled
             /\ selected'[Conn].pending = <<>>
             /\ Delivered(selected[Conn].pending, Reply)
       /\ Sent.command \in {"NOOP", "CHECK", "FETCH"}
          /\ selected[Conn] # NoSelection
          => /\ last'.polled
             /\ selected'[Conn].pending = <<>>
             /\ Delivered(selected[Conn].pending, Reply)]_vars

\* The order of the kinds in the drained part of a reply.
Rank(kind) ==
    CASE kind = "EXISTS" -> 1
      [] kind = "RECENT" -> 2
      [] kind = "EXPUNGE" -> 3
      [] kind = "FETCH" -> 4
      [] OTHER -> 0

\* The reply holds exactly the updates of queue q, in the order of the kinds.
InDrainOrder(resp, q) ==
    /\ \A i, j \in DOMAIN resp.data :
          i < j => Rank(resp.data[i].kind) <= Rank(resp.data[j].kind)
    /\ \A i \in DOMAIN resp.data : Rank(resp.data[i].kind) > 0
    /\ Len(Items(resp, "EXISTS")) <= 1
    /\ Len(Items(resp, "RECENT")) <= 1
    /\ Len(Items(resp, "EXPUNGE")) = Len(Pending(q, "expunge"))
    /\ \A i \in DOMAIN Items(resp, "EXPUNGE") :
          Items(resp, "EXPUNGE")[i].n = Pending(q, "expunge")[i].seq
    /\ Len(Items(resp, "FETCH")) = Len(Pending(q, "fetch"))
    /\ \A i \in DOMAIN Items(resp, "FETCH") :
          /\ Items(resp, "FETCH")[i].n = Pending(q, "fetch")[i].seq
          /\ Items(resp, "FETCH")[i].flags = Pending(q, "fetch")[i].flags

\* The data that follow the first own items of the reply are in the order
\* of the kinds, with at most one EXISTS and one RECENT.
TailInDrainOrder(resp, own) ==
    \A i, j \in DOMAIN resp.data :
        own < i /\ i < j
        => /\ Rank(resp.data[i].kind) > 0
           /\ Rank(resp.data[i].kind) <= Rank(resp.data[j].kind)
           /\ resp.data[i].kind \in {"EXISTS", "RECENT"}
              => resp.data[i].kind # resp.data[j].kind

\* C4: the updates drained into a reply come as at most one EXISTS, then at
\* most one RECENT, then the EXPUNGE items, then the FETCH items, the EXPUNGE
\* items in the order of the queue and the FETCH items too.  NOOP and CHECK
\* put nothing else into the reply, so their whole data is the drained part;
\* in any other reply the drained part follows the data of the handler.
DrainOrder ==
    [][/\ Sent.command \in {"NOOP", "CHECK"} /\ selected[Conn] # NoSelection
          => InDrainOrder(Reply, selected[Conn].pending)
       /\ last'.polled
          => TailInDrainOrder(Reply,
                              Len(func(World, Conn, Sent, <<>>).resp.data))]_vars

\* A reply that holds all four kinds, with two FETCH items.
DrainOrderWitness ==
    /\ last.cmd.command = "NOOP"
    /\ Len(Items(last.resp, "EXISTS")) = 1
    /\ Len(Items(last.resp, "RECENT")) = 1
    /\ Len(Items(last.resp, "EXPUNGE")) = 1
    /\ Len(Items(last.resp, "FETCH")) = 2
    /\ Items(last.resp, "FETCH")[1] # Items(last.resp, "FETCH")[2]

\* C5: in every mailbox the UIDs grow strictly with the index, and each is
\* smaller than the next_uid of the mailbox.
UidsIncrease ==
    \A n \in DOMAIN mailboxes :
        /\ \A i, j \in DOMAIN mailboxes[n].messages :
              i < j => mailboxes[n].messages[i].uid < mailboxes[n].messages[j].uid
        /\ \A i \in DOMAIN mailboxes[n].messages :
              mailboxes[n].messages[i].uid < mailboxes[n].next_uid

\* A renamed mailbox that holds an appended and a copied message.
UidsIncreaseWitness ==
    /\ last.cmd.command = "COPY"
    /\ last.resp.status = "OK"
    /\ last.cmd.mailbox = "A"
    /\ selected[last.conn].name = "A"
    /\ "INBOX" \notin DOMAIN mailboxes
    /\ Len(mailboxes["A"].messages) = 2

\* The messages a step added at the end of mailbox n.
Added(n) ==
    SubSeq(mailboxes'[n].messages, Len(mailboxes[n].messages) + 1,
           Len(mailboxes'[n].messages))

\* C6: next_uid never decreases; a message added by APPEND or COPY gets the
\* next_uid of the moment and next_uid grows by the number of messages added;
\* EXPUNGE and RENAME leave next_uid as it is; an append of several messages
\* returns their UIDs in the order given.
NextUidMonotone ==
    [][/\ \A n \in DOMAIN mailboxes \cap DOMAIN mailboxes' :
             mailboxes'[n].next_uid >= mailboxes[n].next_uid
       /\ Sent.command = "APPEND" /\ Reply.status = "OK"
          => /\ mailboxes'[Sent.mailbox].next_uid
                    = mailboxes[Sent.mailbox].next_uid + 1
             /\ Len(Added(Sent.mailbox)) = 1
             /\ Added(Sent.mailbox)[1].uid = mailboxes[Sent.mailbox].next_uid
             /\ last'.result = <<mailboxes[Sent.mailbox].next_uid>>
       /\ Sent.command = "COPY" /\ Reply.status = "OK"
          => /\ mailboxes'[Sent.mailbox].next_uid
                    = mailboxes[Sent.mailbox].next_uid + Len(Added(Sent.mailbox))
             /\ \A i \in DOMAIN Added(Sent.mailbox) :
                    Added(Sent.mailbox)[i].uid
                        = mailboxes[Sent.mailbox].next_uid + i - 1
       /\ Sent.command = "EXPUNGE"
          => \A n \in DOMAIN mailboxes :
                 mailboxes'[n].next_uid = mailboxes[n].next_uid
       /\ Sent.command = "RENAME" /\ Reply.status = "OK"
          => mailboxes'[Sent.to_mailbox].next_uid
                 = mailboxes[Sent.mailbox].next_uid
       /\ \A n \in DOMAIN mailboxes :
             append_messages(World, Conn, n, <<{}, {Deleted}>>).result
                 = <<mailboxes[n].next_uid, mailboxes[n].next_uid + 1>>]_vars

\* An append after the expunge of the only message: its UID is not used again.
NextUidWitness ==
    /\ last.cmd.command = "APPEND"
    /\ last.resp.status = "OK"
    /\ last.result = <<2>>
    /\ mailboxes[last.cmd.mailbox].messages = <<[uid |-> 2, flags |-> {}]>>

\* C7: a UID that a session registered on a mailbox holds as \Recent is not in
\* the recent set of the mailbox and is held by no other session registered
\* on that mailbox.
RecentExclusive ==
    \A n \in DOMAIN mailboxes :
        \A c \in mailboxes[n].sessions :
            \A u \in selected[c].recent :
                /\ u \notin mailboxes[n].recent
                /\ \A d \in mailboxes[n].sessions \ {c} : u \notin selected[d].recent

\* The updates a step added at the end of the queue of connection c.
Enqueued(c) ==
    SubSeq(selected'[c].pending, Len(selected[c].pending) + 1,
           Len(selected'[c].pending))

\* The updates that the handler of the step, before the drain, added at the
\* end of the queue of connection c.
Handed(c) ==
    SubSeq(func(World, Conn, Sent, <<>>).w.selected[c].pending,
           Len(selected[c].pending) + 1,
           Len(func(World, Conn, Sent, <<>>).w.selected[c].pending))

\* The queue part q holds an Exists for seq and a Fetch of seq with the flags.
Told(q, seq, flag_set) ==
    /\ \E i \in DOMAIN q : q[i].kind = "exists" /\ q[i].seq = seq
    /\ \E i \in DOMAIN q :
          /\ q[i].kind = "fetch" /\ q[i].seq = seq
          /\ flag_set \subseteq q[i].flags

\* C8: an APPEND to a mailbox with registered sessions leaves an Exists for
\* the new sequence number and a Fetch with the flags in the queue of each of
\* them, the appending connection included, sets their updated signal and
\* keeps the UID out of the recent set of the mailbox; what is enqueued to the
\* other sessions is still in their queues after the command, and the
\* appending connection finds its Fetch in the reply to the APPEND.  With no
\* session registered the UID goes to the recent set of the mailbox and no
\* queue changes.
AppendFanOut ==
    [][Sent.command = "APPEND" /\ Reply.status = "OK"
       => /\ mailboxes[Sent.mailbox].sessions # {}
             => /\ mailboxes'[Sent.mailbox].recent = mailboxes[Sent.mailbox].recent
                /\ mailboxes[Sent.mailbox].next_uid
                       \notin mailboxes'[Sent.mailbox].recent
                /\ \A s \in mailboxes[Sent.mailbox].sessions :
                      /\ Told(Handed(s), Len(mailboxes[Sent.mailbox].messages) + 1,
                              Sent.flag_list)
                      /\ selected'[s].updated
                      /\ s # Conn => Enqueued(s) = Handed(s)
                /\ Conn \in mailboxes[Sent.mailbox].sessions
                   => /\ Items(Reply, "EXISTS") # <<>>
                      /\ \E i \in DOMAIN Reply.data :
                            /\ Reply.data[i].kind = "FETCH"
                            /\ Reply.data[i].n = Len(mailboxes[Sent.mailbox].messages) + 1
                            /\ Sent.flag_list \subseteq Reply.data[i].flags
          /\ mailboxes[Sent.mailbox].sessions = {}
             => /\ mailboxes'[Sent.mailbox].recent
                       = mailboxes[Sent.mailbox].recent
                             \cup {mailboxes[Sent.mailbox].next_uid}
                /\ \A s \in Conns \ {Conn} : selected'[s] = selected[s]
                /\ selected'[Conn].recent = selected[Conn].recent]_vars

\* An append by one of two connections that have the mailbox selected.
AppendFanOutWitness ==
    /\ last.cmd.command = "APPEND"
    /\ last.resp.status = "OK"
    /\ mailboxes["INBOX"].sessions = Conns
    /\ \E c \in Conns : Len(selected[c].pending) = 3

\* The value that the reply resp gives for the item kind.
Value(resp, kind) == Items(resp, kind)[1].n

\* C9: STATUS changes nothing of the mailbox, so a SELECT reports the RECENT
\* count that a STATUS reports before it; SELECT moves the recent set of the
\* mailbox to the new selection and leaves it empty, after which STATUS
\* reports RECENT 0 and MESSAGES, UIDNEXT and UIDVALIDITY as before.
StatusKeepsRecent ==
    [][/\ Sent.command = "STATUS" /\ Reply.status = "OK"
          => /\ mailboxes' = mailboxes
             /\ selected' = selected
             /\ Value(Reply, "STATUS.RECENT")
                    = Cardinality(mailboxes[Sent.mailbox].recent)
       /\ Sent.command = "SELECT" /\ Reply.status = "OK"
          => LET before == do_status(World, Conn, OnMailbox("STATUS", Sent.mailbox)).resp
                 after == do_status(World', Conn, OnMailbox("STATUS", Sent.mailbox)).resp
             IN /\ Value(Reply, "RECENT") = Value(before, "STATUS.RECENT")
                /\ selected'[Conn].recent = mailboxes[Sent.mailbox].recent
                /\ mailboxes'[Sent.mailbox].recent = {}
                /\ Value(after, "STATUS.RECENT") = 0
                /\ Value(after, "MESSAGES") = Value(before, "MESSAGES")
                /\ Value(after, "STATUS.UIDNEXT") = Value(before, "STATUS.UIDNEXT")
                /\ Value(after, "STATUS.UIDVALIDITY")
                       = Value(before, "STATUS.UIDVALIDITY")]_vars

\* A STATUS that reports RECENT 0 for the mailbox the connection selected
\* and took the recent message of.
StatusWitness ==
    /\ last.cmd.command = "STATUS"
    /\ last.resp.status = "OK"
    /\ Value(last.resp, "STATUS.RECENT") = 0
    /\ Value(last.resp, "MESSAGES") = 1
    /\ selected[last.conn].recent = {1}

\* The sequence s of numbers goes down.
Descending(s) == \A i, j \in DOMAIN s : i < j => s[i] > s[j]

\* C10: the Expunge updates one EXPUNGE enqueues to a session, and the EXPUNGE
\* items of the replies, carry the sequence numbers highest first.
ExpungeDescending ==
    [][Sent.command = "EXPUNGE"
       => /\ Descending([i \in DOMAIN Items(Reply, "EXPUNGE") |->
                            Items(Reply, "EXPUNGE")[i].n])
          /\ \A c \in Conns \ {Conn} :
                Descending([i \in DOMAIN Pending(Enqueued(c), "expunge") |->
                               Pending(Enqueued(c), "expunge")[i].seq])]_vars

\* The UID sets tried for a UID EXPUNGE: 1, 2, 2:* and 1:*.
UidSets == {[lo |-> 1, hi |-> 1], [lo |-> 2, hi |-> 2], [lo |-> 2, hi |-> 0],
            [lo |-> 1, hi |-> 0]}

\* The UID is one of those the set names in a mailbox whose highest UID is
\* upper ('*' is the highest UID).
InUidSet(uid, uid_set, upper) ==
    \E i \in DOMAIN iter(uid_set, upper) : iter(uid_set, upper)[i] = uid

\* The messages of msgs without those that carry \Deleted for the selection
\* sel and, if uids is not {}, have their UID in uids.
Surviving(msgs, sel, restricted, uids) ==
    LET Stays(m) == ~(/\ Deleted \in get_flags(m, sel)
                      /\ (restricted => m.uid \in uids))
    IN SelectSeq(msgs, Stays)

\* The mailbox mb but for its messages, its recent set and its sessions.
Frame(mb) == [next_uid |-> mb.next_uid, uid_validity |-> mb.uid_validity,
              subscribed |-> mb.subscribed]

UidsOf(items) == [i \in DOMAIN items |-> items[i].msg.uid]

\* C12: a COPY of one or more messages into an existing mailbox is answered
\* OK with the code COPYUID; the source UIDs are reported in the order copied
\* with as many consecutive destination UIDs, the first being the next_uid
\* of the destination before the command; the destination ends with the new
\* messages under those UIDs and the source messages stay as they were.
CopyAnswersCopyUid ==
    [][/\ Sent.command = "COPY" /\ Reply.status = "OK"
       /\ _get_messages(World, Conn, Sent.sequence_set, Sent.uid).result # <<>>
       => /\ Reply.code = "COPYUID"
          /\ last'.result[1]
                 = UidsOf(_get_messages(World, Conn, Sent.sequence_set,
                                        Sent.uid).result)
          /\ last'.result[2]
                 = [i \in DOMAIN last'.result[1] |->
                       mailboxes[Sent.mailbox].next_uid + i - 1]
          /\ UidsOf([i \in DOMAIN Added(Sent.mailbox) |->
                        [msg |-> Added(Sent.mailbox)[i]]])
                 = last'.result[2]
          /\ Sent.mailbox # selected[Conn].name
             => mailboxes'[selected[Conn].name].messages
                    = mailboxes[selected[Conn].name].messages]_vars

\* The UIDs of the messages a step added to the mailbox its command names.
NewUids == {Added(Sent.mailbox)[i].uid : i \in DOMAIN Added(Sent.mailbox)}

\* Session s was given, in its queue or, for the connection of the step, in
\* the reply, a Fetch for each message the step added to the mailbox.
ToldOfCopies(s) ==
    /\ selected'[s].updated
    /\ \A i \in DOMAIN Added(Sent.mailbox) :
          IF s = Conn
          THEN \E j \in DOMAIN Reply.data :
                   /\ Reply.data[j].kind = "FETCH"
                   /\ Reply.data[j].n = Len(mailboxes[Sent.mailbox].messages) + i
          ELSE \E j \in DOMAIN Enqueued(s) :
                   /\ Enqueued(s)[j].kind = "fetch"
                   /\ Enqueued(s)[j].seq = Len(mailboxes[Sent.mailbox].messages) + i

\* The part of C13 that does not depend on who holds \Recent.
CopyLeavesRecent ==
    /\ mailboxes[Sent.mailbox].sessions = {}
       => NewUids \subseteq mailboxes'[Sent.mailbox].recent
    /\ mailboxes[Sent.mailbox].sessions # {}
       => /\ NewUids \cap mailboxes'[Sent.mailbox].recent = {}
          /\ \A s \in mailboxes[Sent.mailbox].sessions : ToldOfCopies(s)

\* C13 as stated: after a COPY into a mailbox with registered sessions each
\* of them holds \Recent for the copied messages.
CopyRecentEach ==
    [][Sent.command = "COPY" /\ Reply.status = "OK" /\ NewUids # {}
       => /\ CopyLeavesRecent
          /\ \A s \in mailboxes[Sent.mailbox].sessions :
                NewUids \subseteq selected'[s].recent]_vars

\* C13, amended: a COPY into a mailbox with no registered session leaves the
\* new UIDs in the recent set of the mailbox; with registered sessions none
\* of the new UIDs stays in that set, exactly one of the sessions holds
\* \Recent for all of them, and every registered session gets a Fetch for
\* each copied message and its updated signal set.
CopyRecentOne ==
    [][Sent.command = "COPY" /\ Reply.status = "OK" /\ NewUids # {}
       => /\ CopyLeavesRecent
          /\ mailboxes[Sent.mailbox].sessions # {}
             => \E s \in mailboxes[Sent.mailbox].sessions :
                    /\ NewUids \subseteq selected'[s].recent
                    /\ \A d \in mailboxes[Sent.mailbox].sessions \ {s} :
                          NewUids \cap selected'[d].recent = {}]_vars

\* A COPY into a mailbox that both connections have selected.
CopyRecentWitness ==
    /\ last.cmd.command = "COPY"
    /\ last.resp.status = "OK"
    /\ last.result # <<>>
    /\ mailboxes[last.cmd.mailbox].sessions = Conns
    /\ \E c \in Conns : selected[c].recent = {}

\* The messages the command of the step names, as (sequence number, message).
NamedMessages == _get_messages(World, Conn, Sent.sequence_set, Sent.uid).result

\* C14: a STORE enqueues, for every message it names, a Fetch with the new
\* flags of the message to every other session registered on the mailbox,
\* in the order of the messages, and sets the updated signal of that session;
\* it enqueues nothing to the queue of its own selection, so that a silent
\* STORE with nothing pending is answered without data.
StoreTellsOthers ==
    [][Sent.command = "STORE" /\ Reply.status = "OK"
       => /\ Handed(Conn) = <<>>
          /\ \A s \in mailboxes[selected[Conn].name].sessions \ {Conn} :
                /\ Enqueued(s)
                       = [i \in DOMAIN NamedMessages |->
                             Update("fetch", NamedMessages[i].seq,
                                    mailboxes'[selected[Conn].name]
                                        .messages[NamedMessages[i].seq].flags)]
                /\ NamedMessages # <<>> => selected'[s].updated
          /\ \A s \in Conns \ mailboxes[selected[Conn].name].sessions :
                selected'[s] = selected[s]
          /\ Sent.silent /\ selected[Conn].pending = <<>> => Reply.data = <<>>]_vars

\* A STORE on two messages while the other connection has the mailbox
\* selected and nothing is pending for the connection of the STORE.
StoreTellsOthersWitness ==
    /\ last.cmd.command = "STORE"
    /\ last.resp.status = "OK"
    /\ last.cmd.sequence_set = All
    /\ Len(mailboxes["INBOX"].messages) = 2
    /\ mailboxes["INBOX"].sessions = Conns
    /\ last.updates = NoUpdates
    /\ \E s \in Conns \ {last.conn} :
          /\ Len(selected[s].pending) >= 2
          /\ selected[s].pending[Len(selected[s].pending)]
                 = Update("fetch", 2, {Deleted})

\* The expunges and flag changes of a queue, in queue order, each as the
\* kind of the data item that reports it and its sequence number.
QueueChanges(q) ==
    LET IsChange(u) == u.kind \in {"expunge", "fetch"}
        changes == SelectSeq(q, IsChange)
    IN [i \in DOMAIN changes |->
           [kind |-> IF changes[i].kind = "expunge" THEN "EXPUNGE" ELSE "FETCH",
            n |-> changes[i].seq]]

\* The expunges and flag changes a reply reports, in the order of the reply.
ReplyChanges(resp) ==
    LET IsChange(item) == item.kind \in {"EXPUNGE", "FETCH"}
        changes == SelectSeq(resp.data, IsChange)
    IN [i \in DOMAIN changes |-> [kind |-> changes[i].kind, n |-> changes[i].n]]

\* The sessions that have the mailbox of the step selected before and after
\* it, but for the connection of the step.
Watching(n) ==
    IF n \in DOMAIN mailboxes /\ n \in DOMAIN mailboxes'
    THEN (mailboxes[n].sessions \cap mailboxes'[n].sessions) \ {Conn}
    ELSE {}

\* C15: the updates of a mailbox reach every session that has it selected
\* in the order they were applied: a queue only grows at its end, a command
\* adds the same changes in the same order to the queues of all the sessions
\* it tells, and a session that drains its queue with NOOP or CHECK is told
\* the expunges and flag changes in the order of the queue.
UpdatesInOrder ==
    [][/\ \A s \in Conns \ {Conn} :
             selected[s] # NoSelection /\ selected'[s] # NoSelection
             => /\ Len(selected'[s].pending) >= Len(selected[s].pending)
                /\ SubSeq(selected'[s].pending, 1, Len(selected[s].pending))
                       = selected[s].pending
       /\ \A n \in DOMAIN mailboxes :
             \A s, d \in Watching(n) :
                 QueueChanges(Enqueued(s)) = QueueChanges(Enqueued(d))
       /\ Sent.command \in {"NOOP", "CHECK"} /\ selected[Conn] # NoSelection
          /\ Reply.status = "OK"
          => ReplyChanges(Reply) = QueueChanges(selected[Conn].pending)]_vars

\* The largest message count among the Exists updates of the queue q.
Counted(q) ==
    Max({Pending(q, "exists")[i].seq : i \in DOMAIN Pending(q, "exists")})

\* C16: while a connection is suspended in the blocking check of its
\* mailbox, an APPEND to that mailbox by another connection sets its updated
\* signal and queues the Exists and the Fetch of the new message; a
\* connection is suspended only while its signal is clear, and a check that
\* finds the signal set returns at once, so a signal set before the wait is
\* not lost; the step that ends the wait finds the signal set, clears it,
\* empties the queue and replies OK with the EXISTS of the queued message
\* count; and a suspended connection whose signal is set is eventually
\* resumed.
WaitWakes ==
    /\ [][/\ \A a \in Conns :
              /\ waiting[a] /\ waiting' = waiting /\ Conn # a
              /\ Sent.command = "APPEND" /\ Reply.status = "OK"
              /\ selected[a].name = Sent.mailbox
              => /\ selected'[a].updated
                 /\ Told(Enqueued(a), Len(mailboxes[Sent.mailbox].messages) + 1,
                         Sent.flag_list)
          /\ \A a \in Conns :
              ~waiting[a] /\ waiting'[a]
              => /\ ~selected[a].updated
                 /\ selected'[a] = selected[a]
          /\ \A a \in Conns :
              \/ waiting[a] /\ ~waiting'[a]
              \/ /\ waiting' = waiting /\ Conn = a /\ Sent = Blocking
                 /\ Reply.status = "OK"
              => /\ Conn = a /\ Sent = Blocking
                 /\ selected[a].updated
                 /\ ~selected'[a].updated
                 /\ selected'[a].pending = <<>>
                 /\ Reply.status = "OK"
                 /\ Pending(selected[a].pending, "exists") # <<>>
                    => Value(Reply, "EXISTS") = Counted(selected[a].pending)]_vars
    /\ \A a \in Conns :
          (waiting[a] /\ selected[a].updated)
              ~> (~waiting[a] /\ last.conn = a /\ last.cmd = Blocking
                  /\ ~selected[a].updated)

\* A connection is suspended and another one has just appended to its
\* mailbox.
WaitWakesWitness ==
    \E a \in Conns :
        /\ waiting[a] /\ selected[a].updated
        /\ last.cmd.command = "APPEND" /\ last.conn # a
        /\ last.cmd.mailbox = selected[a].name
        /\ Pending(selected[a].pending, "exists") # <<>>

\* The operations that take the selection, as the commands that call them.
TakesSelection == {"FETCH", "SEARCH", "EXPUNGE", "COPY", "STORE"}

\* The selection of connection c names a mailbox that was deleted or renamed
\* away after c selected it: the name is gone, or it names a mailbox created
\* since, on which c was never registered.
Stale(c) ==
    /\ selected[c] # NoSelection
    /\ \/ selected[c].name \notin DOMAIN mailboxes
       \/ c \notin mailboxes[selected[c].name].sessions

\* C17: on a selection whose mailbox was deleted or renamed away,
\* check_mailbox and each command that takes the selection fail with
\* MailboxNotFound and leave every mailbox as it was.
StaleSelectionFails ==
    [][Stale(Conn) /\ Sent.command \in TakesSelection /\ waiting' = waiting
       => /\ check_mailbox(World, Conn, selected[Conn], FALSE)
                 = Raise(World, "MailboxNotFound")
          /\ Reply = Raised("MailboxNotFound")
          /\ mailboxes' = mailboxes]_vars

\* While the name of the selection is absent, check_mailbox and each command
\* that takes the selection fail with MailboxNotFound and leave every mailbox
\* as it was.
AbsentNameFails ==
    [][/\ selected[Conn] # NoSelection
       /\ selected[Conn].name \notin DOMAIN mailboxes
       /\ Sent.command \in TakesSelection /\ waiting' = waiting
       => /\ check_mailbox(World, Conn, selected[Conn], FALSE)
                 = Raise(World, "MailboxNotFound")
          /\ Reply = Raised("MailboxNotFound")
          /\ mailboxes' = mailboxes]_vars

\* C18: INBOX exists after every command, and CREATE INBOX, DELETE INBOX and
\* a RENAME to INBOX by a logged-in connection are answered NO and leave the
\* set of mailboxes as it was.
InboxKept ==
    [][/\ "INBOX" \in DOMAIN mailboxes'
       /\ /\ session[Conn] # None /\ waiting' = waiting
          /\ \/ Sent.command \in {"CREATE", "DELETE"} /\ Sent.mailbox = "INBOX"
             \/ Sent.command = "RENAME" /\ Sent.to_mailbox = "INBOX"
          => /\ Reply.status = "NO"
             /\ DOMAIN mailboxes' = DOMAIN mailboxes]_vars

\* C19: a RENAME of INBOX to a name that does not exist is answered OK, puts
\* the messages of INBOX under the new name and leaves INBOX in existence
\* with no message.
RenameInboxLeavesInbox ==
    [][/\ session[Conn] # None /\ waiting' = waiting
       /\ Sent.command = "RENAME" /\ Sent.mailbox = "INBOX"
       /\ "INBOX" \in DOMAIN mailboxes
       /\ Sent.to_mailbox \notin DOMAIN mailboxes
       => /\ Reply.status = "OK"
          /\ Sent.to_mailbox \in DOMAIN mailboxes'
          /\ mailboxes'[Sent.to_mailbox].messages = mailboxes["INBOX"].messages
          /\ "INBOX" \in DOMAIN mailboxes'
          /\ mailboxes'["INBOX"].messages = <<>>]_vars

\* What a rename that returned r did to the mailboxes mb: the name before is
\* gone, the name after holds its messages, next_uid and subscription flag,
\* and every other mailbox is as it was.
Moved(mb, r, before_name, after_name) ==
    /\ r.err = ""
    /\ DOMAIN r.w.mailboxes = (DOMAIN mb \cup {after_name}) \ {before_name}
    /\ r.w.mailboxes[after_name].messages = mb[before_name].messages
    /\ r.w.mailboxes[after_name].next_uid = mb[before_name].next_uid
    /\ r.w.mailboxes[after_name].subscribed = mb[before_name].subscribed
    /\ \A n \in DOMAIN mb \ {before_name} : r.w.mailboxes[n] = mb[n]

\* C20: rename_mailbox raises MailboxConflict when the new name exists and
\* MailboxNotFound when, the new name being free, the old one does not exist,
\* changing nothing, and RENAME is then answered NO 'Mailbox already exists.'
\* and NO 'Mailbox not found.'; otherwise it moves the mailbox, RENAME is
\* answered OK and the mailboxes after the command are those the operation
\* left.
RenameMoves ==
    [][session[Conn] # None /\ waiting' = waiting /\ Sent.command = "RENAME"
       => IF Sent.to_mailbox \in DOMAIN mailboxes
          THEN /\ rename_mailbox(World, Conn, Sent.mailbox, Sent.to_mailbox)
                      = Raise(World, "MailboxConflict")
               /\ Reply.status = "NO" /\ Reply.text = "Mailbox already exists."
               /\ mailboxes' = mailboxes
          ELSE IF Sent.mailbox \notin DOMAIN mailboxes
          THEN /\ rename_mailbox(World, Conn, Sent.mailbox, Sent.to_mailbox)
                      = Raise(World, "MailboxNotFound")
               /\ Reply.status = "NO" /\ Reply.text = "Mailbox not found."
               /\ mailboxes' = mailboxes
          ELSE /\ Moved(mailboxes,
                        rename_mailbox(World, Conn, Sent.mailbox, Sent.to_mailbox),
                        Sent.mailbox, Sent.to_mailbox)
               /\ Reply.status = "OK"
               /\ mailboxes'
                     = rename_mailbox(World, Conn, Sent.mailbox,
                                      Sent.to_mailbox).w.mailboxes]_vars

\* A subscribed mailbox with a message has just been renamed.
RenameMovesWitness ==
    /\ last.cmd.command = "RENAME" /\ last.resp.status = "OK"
    /\ last.cmd.mailbox \notin DOMAIN mailboxes
    /\ mailboxes[last.cmd.to_mailbox].subscribed
    /\ mailboxes[last.cmd.to_mailbox].messages # <<>>
    /\ mailboxes[last.cmd.to_mailbox].next_uid > 1

\* Some mailbox of mb has a name that starts with name and the hierarchy
\* separator, among the names of the scenario.
HasChildren(mb, name) ==
    \E child \in DOMAIN mb : \E leaf \in {"B"} : child = name \o "." \o leaf

\* C21: a DELETE of a mailbox that has a mailbox below it in the hierarchy
\* is answered NO 'Mailbox has inferior hierarchical names.' and leaves the
\* mailboxes as they were.
DeleteKeepsParent ==
    [][/\ session[Conn] # None /\ waiting' = waiting
       /\ Sent.command = "DELETE"
       /\ Sent.mailbox \in DOMAIN mailboxes
       /\ HasChildren(mailboxes, Sent.mailbox)
       => /\ delete_mailbox(World, Conn, Sent.mailbox)
                 = Raise(World, "MailboxHasChildren")
          /\ Reply = ResponseNo("Mailbox has inferior hierarchical names.")
          /\ mailboxes' = mailboxes]_vars

\* C22: every command is answered OK, NO or BAD: no exception of a session
\* operation leaves do_command, SUBSCRIBE and UNSUBSCRIBE of a name that does
\* not exist are answered NO, and the connection keeps its session.
ErrorsAnswered ==
    [][waiting' = waiting
       => /\ Reply.status \in {"OK", "NO", "BAD"}
          /\ /\ Sent.command \in {"SUBSCRIBE", "UNSUBSCRIBE"}
             /\ session[Conn] # None
             /\ Sent.mailbox \notin DOMAIN mailboxes
             => Reply.status = "NO"
          /\ Sent.command # "LOGOUT" /\ session[Conn] # None
             => session'[Conn] = session[Conn]]_vars

\* C23: the reply to a STORE with .SILENT carries no untagged data, and the
\* updates that were pending for the connection are still in its queue after
\* the command.
SilentStoreKeepsQueue ==
    [][/\ Sent.command = "STORE" /\ Sent.silent /\ waiting' = waiting
       /\ selected[Conn] # NoSelection /\ Reply.status = "OK"
       => /\ Reply.data = <<>>
          /\ Len(selected'[Conn].pending) >= Len(selected[Conn].pending)
          /\ SubSeq(selected'[Conn].pending, 1, Len(selected[Conn].pending))
                = selected[Conn].pending]_vars

\* The names a LIST or LSUB reply lists.
Listed(resp, kind) == {Items(resp, kind)[i].name : i \in DOMAIN Items(resp, kind)}

\* C24: a SUBSCRIBE of an existing mailbox is answered OK and sets its
\* subscription flag, whether it was set before or not, changing nothing
\* else; the same SUBSCRIBE sent once more is answered OK again and changes
\* nothing; and an LSUB reply lists INBOX and every subscribed mailbox.
SubscribeIdempotent ==
    [][/\ /\ Sent.command = "SUBSCRIBE" /\ session[Conn] # None
          /\ waiting' = waiting
          /\ Sent.mailbox \in DOMAIN mailboxes
          => /\ Reply.status = "OK"
             /\ mailboxes' = [mailboxes EXCEPT ![Sent.mailbox].subscribed = TRUE]
             /\ mailboxes[Sent.mailbox].subscribed => mailboxes' = mailboxes
             /\ do_command(World', Conn, Sent, <<>>).resp.status = "OK"
             /\ do_command(World', Conn, Sent, <<>>).w.mailboxes = mailboxes'
       /\ Sent.command = "LSUB" /\ session[Conn] # None /\ waiting' = waiting
          => /\ Reply.status = "OK"
             /\ "INBOX" \in Listed(Reply, "LSUB")
             /\ \A n \in DOMAIN mailboxes :
                   mailboxes[n].subscribed => n \in Listed(Reply, "LSUB")]_vars

\* An LSUB that lists a subscribed mailbox other than INBOX.
SubscribeIdempotentWitness ==
    /\ last.cmd.command = "LSUB" /\ last.resp.status = "OK"
    /\ "A" \in DOMAIN mailboxes
    /\ mailboxes["A"].subscribed
    /\ {"A", "INBOX"} \subseteq Listed(last.resp, "LSUB")

\* Connection c has mailbox n selected.
Selects(sel, c, n) == sel[c] # NoSelection /\ sel[c].name = n

\* C25: a connection whose selection of a mailbox ended with a command
\* (CLOSE, a SELECT or EXAMINE, LOGOUT) or with the loss of the connection is
\* no longer in the sessions of that mailbox, only connections that have a
\* mailbox selected are in its sessions, and an APPEND changes the selection
\* of no connection that has not selected the mailbox; an APPEND to a mailbox
\* that no connection has selected puts the new UID into the recent set of
\* the mailbox, and the next SELECT or EXAMINE of the mailbox takes over that
\* set and reports its size as RECENT.
UnselectedLeaves ==
    [][/\ \A c \in Conns : \A n \in DOMAIN mailboxes' :
            /\ Selects(selected, c, n) /\ Conn = c
               /\ Sent.command \in {"CLOSE", "SELECT", "EXAMINE", "LOGOUT",
                                     "DISCONNECT"}
               /\ Reply.status \in {"OK", ""}
               => (c \in mailboxes'[n].sessions <=> Selects(selected', c, n))
            /\ c \in mailboxes'[n].sessions => Selects(selected', c, n)
       /\ Sent.command = "APPEND" /\ Reply.status = "OK"
          => /\ \A c \in Conns \ {Conn} :
                   ~Selects(selected, c, Sent.mailbox) => selected'[c] = selected[c]
             /\ (\A c \in Conns : ~Selects(selected, c, Sent.mailbox))
                   => /\ mailboxes[Sent.mailbox].sessions = {}
                      /\ mailboxes'[Sent.mailbox].recent
                             = mailboxes[Sent.mailbox].recent
                                   \cup {mailboxes[Sent.mailbox].next_uid}
       /\ Sent.command \in {"SELECT", "EXAMINE"} /\ Reply.status = "OK"
          /\ mailboxes[Sent.mailbox].sessions = {}
          => /\ selected'[Conn].recent = mailboxes[Sent.mailbox].recent
             /\ Value(Reply, "RECENT") = Cardinality(mailboxes[Sent.mailbox].recent)
             /\ mailboxes'[Sent.mailbox].recent = {}]_vars

\* A message was appended to a mailbox that a connection had selected and
\* left: nobody has it selected, and the new UID is recent in the mailbox.
UnselectedLeavesWitness ==
    /\ last.cmd.command = "APPEND" /\ last.resp.status = "OK"
    /\ mailboxes[last.cmd.mailbox].sessions = {}
    /\ mailboxes[last.cmd.mailbox].next_uid - 1 \in mailboxes[last.cmd.mailbox].recent
    /\ \E c \in Conns :
          /\ last.cmd.mailbox \in views[c]
          /\ selected[c] = NoSelection

NothingShared ==
    /\ last'.handler = Sent.command
    /\ func(World, Conn, Sent, <<>>).w = World
    /\ mailboxes' = mailboxes /\ clock' = clock /\ views' = views
    /\ \A s \in Conns \ {Conn} : selected'[s] = selected[s]

\* C27: a CREATE of a name that exists fails with MailboxConflict, a DELETE
\* of a name that is absent with MailboxNotFound, and an APPEND or a COPY to
\* an absent name with MailboxNotFound; each is answered NO, the last two
\* with TRYCREATE, and leaves every mailbox, its next UID, its messages, its
\* registered sessions and the queue of every other connection as they were.
NamePreconditionKeeps ==
    [][/\ Sent.command = "CREATE" /\ Sent.mailbox \in DOMAIN mailboxes
          /\ Sent.mailbox # "INBOX" /\ session[Conn] # None
          => /\ create_mailbox(World, Conn, Sent.mailbox)
                    = Raise(World, "MailboxConflict")
             /\ Reply.status = "NO" /\ NothingShared
       /\ Sent.command = "DELETE" /\ Sent.mailbox \notin DOMAIN mailboxes
          /\ Sent.mailbox # "INBOX" /\ session[Conn] # None
          => /\ delete_mailbox(World, Conn, Sent.mailbox)
                    = Raise(World, "MailboxNotFound")
             /\ Reply.status = "NO" /\ NothingShared
       /\ Sent.command = "APPEND" /\ Sent.mailbox \notin DOMAIN mailboxes
          /\ session[Conn] # None
          => /\ append_messages(World, Conn, Sent.mailbox, <<Sent.flag_list>>)
                    = Raise(World, "MailboxNotFound")
             /\ Reply.status = "NO" /\ Reply.code = "TRYCREATE"
             /\ NothingShared
       /\ Sent.command = "COPY" /\ Sent.mailbox \notin DOMAIN mailboxes
          /\ selected[Conn] # NoSelection /\ ~Stale(Conn)
          => /\ copy_messages(World, Conn, selected[Conn], Sent.sequence_set,
                              Sent.uid, Sent.mailbox, <<>>)
                    = Raise(World, "MailboxNotFound")
             /\ Reply.status = "NO" /\ Reply.code = "TRYCREATE"
             /\ NothingShared]_vars

\* A COPY to an absent name was answered while the other connection had a
\* mailbox selected and the source held a message.
NamePreconditionKeepsWitness ==
    /\ last.cmd.command = "COPY" /\ last.cmd.mailbox \notin DOMAIN mailboxes
    /\ last.resp.code = "TRYCREATE"
    /\ selected[last.conn] # NoSelection
    /\ Len(mailboxes[selected[last.conn].name].messages) > 0
    /\ \E s \in Conns \ {last.conn} : selected[s] # NoSelection

\* C28: a reply that polled the queue of the selection carries one EXPUNGE
\* item for each Expunge update the poll took from the queue, and an EXISTS
\* item when the poll took an Exists: no polled update is dropped and none is
\* reported twice.
UpdatesDeliveredOnce ==
    [][KeptSelection /\ waiting' = waiting /\ last'.polled
       => /\ Len(Items(Reply, "EXPUNGE")) = Len(last'.updates.expunge)
          /\ last'.updates.exists > 0 => Len(Items(Reply, "EXISTS")) = 1]_vars

\* The message count of a client that applies the data of a reply in the
\* order sent: EXISTS n sets the count, each EXPUNGE takes one message away.
RECURSIVE ViewCount(_, _)
ViewCount(count, data) ==
    IF data = <<>> THEN count
    ELSE ViewCount(CASE Head(data).kind = "EXISTS" -> Head(data).n
                     [] Head(data).kind = "EXPUNGE" -> count - 1
                     [] OTHER -> count,
                   Tail(data))

\* The number of messages of the mailbox of connection c when c was last
\* answered: since then each message added put one Exists in the queue of c
\* and each message removed one Expunge.
CountAtLastReply(c) ==
    Len(mailboxes[selected[c].name].messages)
        - Len(Pending(selected[c].pending, "exists"))
        + Len(Pending(selected[c].pending, "expunge"))

\* C29: a client whose message count was that of the mailbox at its last
\* reply and that applies the data of the next reply in the order sent has
\* the message count of the mailbox after that reply.
ViewTracksMailbox ==
    [][KeptSelection /\ waiting' = waiting /\ ~Stale(Conn)
       => ViewCount(CountAtLastReply(Conn), Reply.data)
              = Len(mailboxes'[selected'[Conn].name].messages)]_vars

\* C30: an EXPUNGE, a CLOSE or a STORE on a selection opened read-only
\* leaves the messages of its mailbox and their flags as they were and adds
\* nothing to the queue of any other connection.
ReadOnlyKeeps ==
    [][/\ selected[Conn] # NoSelection /\ selected[Conn].readonly
       /\ ~Stale(Conn) /\ waiting' = waiting
       /\ Sent.command \in {"EXPUNGE", "CLOSE", "STORE"}
       => /\ mailboxes'[selected[Conn].name].messages
                 = mailboxes[selected[Conn].name].messages
          /\ \A s \in Conns \ {Conn} : Enqueued(s) = <<>>]_vars

\* The failures that are no domain error: a lookup of a key that is not
\* there and an index past the end of a list.
Unexpected == {"KeyError", "IndexError"}

\* C31: a command that takes the selection is answered or fails with
\* MailboxNotFound, and so does the Session operation under FETCH: neither
\* fails with a KeyError or an IndexError, whatever was deleted, renamed or
\* expunged before and whatever sequence numbers the command names.
SelectionNeverBreaks ==
    [][/\ selected[Conn] # NoSelection /\ waiting' = waiting
       /\ Sent.command \in TakesSelection
       => /\ ~(Reply.status = "RAISED" /\ Reply.text \in Unexpected)
          /\ Sent.command = "FETCH"
             => fetch_messages(World, Conn, selected[Conn], Sent.sequence_set,
                               Sent.uid).err \notin Unexpected]_vars

====
